---- MODULE Spec2Model ----
(***************************************************************************)
(* A model of tune-my-repos: the OAuth session (GitHubAuth), the           *)
(* organization-inheritance cache and the governance check of              *)
(* GitHubAnalyzer, and the batch loop of analyzeBatch.                     *)
(*                                                                         *)
(* Strings are TLA+ strings; the JavaScript string methods the code uses   *)
(* (toLowerCase, endsWith, replace) are computed character by character.   *)
(* A network response is a nondeterministic choice made when it arrives.   *)
(***************************************************************************)
EXTENDS Integers, Sequences, FiniteSets, TLC

VARIABLES
    \* ---- OAuth session (GitHubAuth and the auth part of the page) ----
    CONFIG,          \* window.CONFIG of the deployment
    sessionStorage,  \* the tab's sessionStorage: key -> value or NULL
    location,        \* the page shown and the code/state of its query string
    cbPc,            \* handleOAuthCallback: "idle" or "awaitProxy"
    uiPc,            \* initAuthUI: "pending", "awaitUser" or "done"
    authView,        \* which of authLoading/authLoggedOut/authLoggedIn shows
    cb,              \* history of the latest handleOAuthCallback invocation
    lastEvent,       \* history: the operation that made the latest step
    alertText,       \* the latest alert() shown to the user
    \* ---- GitHubAnalyzer ----
    orgGithubCache,  \* this.orgGithubCache: cache key -> boolean
    orgProbes,       \* org probe URL -> how often this analyzer fetched it
    pending,         \* the org probe whose fetch is in flight, or NoPending
    returned,        \* what the latest org probe call returned
    anPc,            \* analyzeRepository: where the analysis stands
    an,              \* analyzeRepository: its arguments and local variables
    result,          \* analyzeRepository: the result object being built
    \* ---- the page: handleAnalyze and analyzeBatch ----
    batchPc,         \* handleAnalyze: where the run stands
    batch,           \* the inputs of the run and the locals of analyzeBatch
    ui,              \* which sections show, their messages, the button
    allResults,      \* the global allResults
    analysisStats,   \* the global analysisStats
    analysisCache,   \* the entries and the statistics of window.analysisCache
    \* ---- the page: finding priorities and repository cards ----
    prioritiesConfig, \* the global prioritiesConfig: <<>> for null, or <<config>>
    configPc,        \* loadPrioritiesConfig: "loading" or "settled"
    card             \* the latest createRepoCard call and its sorted findings

authVars == <<CONFIG, sessionStorage, location, cbPc, uiPc, authView, cb,
              lastEvent, alertText>>

analyzerVars == <<orgGithubCache, orgProbes, pending, returned>>
analysisVars == <<anPc, an, result>>

batchVars == <<batchPc, batch, ui, allResults, analysisStats, analysisCache>>

cardVars == <<prioritiesConfig, configPc, card>>

nonAuthVars == <<analyzerVars, analysisVars, batchVars, cardVars>>
pageVars == <<authVars, batchVars, cardVars>>

vars == <<authVars, analyzerVars, analysisVars, batchVars, cardVars>>

(***************************************************************************)
(* Bounds of the model                                                     *)
(***************************************************************************)
MaxFullPages == 2
MaxFindings == 3
NumStateValues == 2
NumTokens == 2
\* Owners and governance filenames the callers of the org probes choose from.
NumOwners == 2
NumProbeFiles == 1
\* Most org file probes that are answered 2xx for one analyzer.
MaxOrgFiles == 1
\* Most repositories an account lists.
MaxRepos == 2
\* Most submits of the form that name a target.
MaxRuns == 2

(***************************************************************************)
(* OAuth session                                                           *)
(***************************************************************************)
NULL == "<null>"

storageKey == "github_oauth_token"
stateKey == "github_oauth_state"

\* The values crypto.getRandomValues can make generateRandomState return.
StateValues == {"st" \o ToString(i) : i \in 1..NumStateValues}
\* The access tokens the proxy can answer with.
Tokens == {"tok" \o ToString(i) : i \in 1..NumTokens}
\* URLSearchParams.get returns null for a missing parameter; "" is falsy too.
UrlCodes == {NULL, "code1"}
UrlStates == {NULL} \cup StateValues

Configs == [GITHUB_OAUTH_CLIENT_ID : {"", "client1"},
            GITHUB_OAUTH_PROXY : {"", "https://proxy.example/"},
            GITHUB_TOKEN : {""}]

NoCallback == [ran |-> FALSE, state |-> NULL, storedState |-> NULL,
               tokenBefore |-> NULL, posted |-> FALSE, outcome |-> "none",
               finished |-> FALSE, alerted |-> FALSE]

Truthy(v) == v # NULL /\ v # ""

getToken(storage) == storage[storageKey]

isAuthenticated(storage) == Truthy(getToken(storage))

setToken(storage, token) == [storage EXCEPT ![storageKey] = token]

\* Mutant: clearToken that forgets the state key.
clearTokenOnly(storage) == [storage EXCEPT ![storageKey] = NULL]

\* Mutant: clearToken that removes the state and keeps the token.
clearTokenKeepsToken(storage) == [storage EXCEPT ![stateKey] = NULL]
clearToken(storage) == [storage EXCEPT ![storageKey] = NULL, ![stateKey] = NULL]

\* Mutant: clearState that leaves the persisted state in place.
clearStateKeeps(storage) == storage

\* clearState: removes the persisted state (and cleans the URL, see below).
clearState(storage) == [storage EXCEPT ![stateKey] = NULL]

\* history.replaceState(..., location.pathname): the query string is dropped.
CleanUrl(loc) == [loc EXCEPT !.code = NULL, !.state = NULL]

\* Mutant: the check is skipped when no state is persisted.
StateMatchesOrNothingStored(state, storedState) ==
    storedState = NULL \/ state = storedState

\* The comparison `state !== storedState` of handleOAuthCallback, negated.
StateMatches(state, storedState) == state = storedState

\* The synchronous part of handleOAuthCallback(code, state), up to the await
\* of the proxy fetch: a record of the new storage, URL, handler position,
\* history record and alert.
CallbackEntry(storage, loc, config, code, state) ==
    LET storedState == storage[stateKey]
        h0 == [NoCallback EXCEPT !.ran = TRUE, !.state = state,
                                 !.storedState = storedState,
                                 !.tokenBefore = storage[storageKey]]
    IN  IF ~StateMatches(state, storedState)
        THEN [storage |-> clearState(storage), loc |-> CleanUrl(loc),
              pc |-> "idle", alert |-> NULL,
              cb |-> [h0 EXCEPT !.outcome = "mismatch", !.finished = TRUE]]
        ELSE IF ~Truthy(config.GITHUB_OAUTH_PROXY)
        THEN \* throw new Error('OAuth proxy not configured...') -> catch
             [storage |-> clearState(storage), loc |-> CleanUrl(loc),
              pc |-> "idle", alert |-> "Authentication failed",
              cb |-> [h0 EXCEPT !.outcome = "no_proxy", !.finished = TRUE,
                                !.alerted = TRUE]]
        ELSE [storage |-> storage, loc |-> loc, pc |-> "awaitProxy",
              alert |-> NULL,
              cb |-> [h0 EXCEPT !.posted = TRUE, !.outcome = "pending"]]

\* new GitHubAuth(): the constructor calls init(), which starts the callback
\* handler when the URL carries both a code and a state.
Construct(storage, loc, config) ==
    IF Truthy(loc.code) /\ Truthy(loc.state)
    THEN CallbackEntry(storage, loc, config, loc.code, loc.state)
    ELSE [storage |-> storage, loc |-> loc, pc |-> "idle", alert |-> NULL,
          cb |-> NoCallback]

\* A (re)load of the application page with the given URL: every handler of
\* the old page is gone, the scripts run again.
LoadPage(storage, loc, event, hist) ==
    LET r == Construct(storage, loc, CONFIG)
    IN  /\ sessionStorage' = r.storage
        /\ location' = r.loc
        /\ cbPc' = r.pc
        /\ cb' = IF r.cb.ran THEN r.cb ELSE hist
        /\ alertText' = IF r.alert # NULL THEN r.alert ELSE alertText
        /\ uiPc' = "pending"
        /\ authView' = "loading"
        /\ lastEvent' = IF r.cb.ran /\ r.cb.finished /\ event = "load"
                        THEN "callback_" \o r.cb.outcome
                        ELSE event

\* The browser opens the application page: the redirect back from GitHub, a
\* link somebody crafted, or the user typing the address.
PageLoad ==
    \E code \in UrlCodes, state \in UrlStates :
        /\ LoadPage(sessionStorage,
                    [page |-> "app", code |-> code, state |-> state], "load",
                    cb)
        /\ UNCHANGED <<CONFIG, nonAuthVars>>

\* Mutant: the state is persisted before the client id is looked at.
loginPersistsStateFirst(storage, clientId, state) ==
    [storage |-> [storage EXCEPT ![stateKey] = state],
     redirect |-> Truthy(clientId),
     alert |-> IF Truthy(clientId) THEN NULL
               ELSE "GitHub OAuth is not configured"]

\* login(), with the value generateRandomState returns when it is called:
\* the storage it leaves, whether it sets location.href, and what it alerts.
loginWith(storage, clientId, state) ==
    IF ~Truthy(clientId)
    THEN [storage |-> storage, redirect |-> FALSE,
          alert |-> "GitHub OAuth is not configured"]
    ELSE [storage |-> [storage EXCEPT ![stateKey] = state],
          redirect |-> TRUE, alert |-> NULL]

\* login(), from the "Sign in with GitHub" button of authLoggedOut.
Login ==
    /\ location.page = "app"
    /\ authView = "loggedOut"
    /\ UNCHANGED nonAuthVars
    /\ \E state \in StateValues :
        LET r == loginWith(sessionStorage, CONFIG.GITHUB_OAUTH_CLIENT_ID, state)
        IN  /\ sessionStorage' = r.storage
            /\ alertText' = IF r.alert # NULL THEN r.alert ELSE alertText
            /\ IF r.redirect
               THEN /\ location' = [page |-> "github", code |-> NULL,
                                    state |-> state]
                    /\ cbPc' = "idle"
                    /\ uiPc' = "done"
                    /\ authView' = "loading"
                    /\ cb' = NoCallback
                    /\ lastEvent' = "login"
                    /\ UNCHANGED CONFIG
               ELSE /\ lastEvent' = "login_unconfigured"
                    /\ UNCHANGED <<CONFIG, location, cbPc, uiPc, authView, cb>>

\* The catch block of handleOAuthCallback.
CallbackFailed(outcome) ==
    /\ alertText' = "Authentication failed"
    /\ sessionStorage' = clearState(sessionStorage)
    /\ location' = CleanUrl(location)
    /\ cbPc' = "idle"
    /\ cb' = [cb EXCEPT !.outcome = outcome, !.finished = TRUE,
                        !.alerted = TRUE]
    /\ lastEvent' = "callback_" \o outcome
    /\ UNCHANGED <<CONFIG, uiPc, authView>>

\* What handleOAuthCallback does to the storage when the proxy answered with
\* an access token.
StoreExchangedToken(storage, token) == setToken(storage, token)

\* The proxy answered with an access token: store it, clean the URL, reload.
CallbackSucceeded(token) ==
    /\ LoadPage(StoreExchangedToken(sessionStorage, token),
                CleanUrl(location), "callback_valid",
                [cb EXCEPT !.outcome = "stored", !.finished = TRUE])
    /\ UNCHANGED CONFIG

\* The rest of handleOAuthCallback, run when the proxy fetch settles.
ProxyResponse ==
    /\ location.page = "app"
    /\ cbPc = "awaitProxy"
    /\ UNCHANGED nonAuthVars
    /\ \/ CallbackFailed("proxy_throw")
       \/ CallbackFailed("proxy_not_ok")
       \/ CallbackFailed("proxy_bad_json")
       \/ CallbackFailed("proxy_no_token")
       \/ \E token \in Tokens : CallbackSucceeded(token)

\* initAuthUI up to its await of getUserInfo (which returns null without a
\* request when no token is stored).
InitAuthUI ==
    /\ location.page = "app"
    /\ uiPc = "pending"
    /\ IF isAuthenticated(sessionStorage)
       THEN uiPc' = "awaitUser" /\ authView' = "loading"
       ELSE uiPc' = "done" /\ authView' = "loggedOut"
    /\ lastEvent' = "init_auth_ui"
    /\ UNCHANGED <<CONFIG, sessionStorage, location, cbPc, cb, alertText>>
    /\ UNCHANGED nonAuthVars

\* Mutant: every answer that is not ok clears the token.
getUserInfoClearsOnAnyFailure(storage, status) ==
    IF ~Truthy(getToken(storage))
    THEN [storage |-> storage, returns |-> NULL, requested |-> FALSE]
    ELSE [storage |-> IF status # 200 THEN clearToken(storage) ELSE storage,
          returns |-> IF status = 200 THEN "user" ELSE NULL,
          requested |-> TRUE]

\* getUserInfo, given the answer to its fetch (0: the fetch rejected): the
\* storage it leaves, what it returns, and whether it made the request.
getUserInfo(storage, status) ==
    IF ~Truthy(getToken(storage))
    THEN [storage |-> storage, returns |-> NULL, requested |-> FALSE]
    ELSE [storage |-> IF status = 401 THEN clearToken(storage) ELSE storage,
          returns |-> IF status = 200 THEN "user" ELSE NULL,
          requested |-> TRUE]

\* getUserInfo after its fetch settled, and the rest of initAuthUI.
\* status 200: identity shown; 401: the token is cleared; anything else
\* (another status, a network failure) returns null and keeps the token.
UserInfoResponse ==
    /\ location.page = "app"
    /\ uiPc = "awaitUser"
    /\ \E status \in {200, 401, 500, 0} :
        LET r == getUserInfo(sessionStorage, status)
        IN  /\ sessionStorage' = r.storage
            /\ authView' = IF r.returns # NULL THEN "loggedIn" ELSE "loggedOut"
            /\ lastEvent' = "userinfo_" \o ToString(status)
    /\ uiPc' = "done"
    /\ UNCHANGED <<CONFIG, location, cbPc, cb, alertText>>
    /\ UNCHANGED nonAuthVars

\* logout(), from the button of authLoggedIn: clearToken, then reload.
Logout ==
    /\ location.page = "app"
    /\ authView = "loggedIn"
    /\ LoadPage(clearToken(sessionStorage), location, "logout", cb)
    /\ UNCHANGED <<CONFIG, nonAuthVars>>


(***************************************************************************)
(* JavaScript strings                                                      *)
(***************************************************************************)
UpperChars == "ABCDEFGHIJKLMNOPQRSTUVWXYZ"
LowerChars == "abcdefghijklmnopqrstuvwxyz"

CharAt(s, i) == SubSeq(s, i, i)

\* The lower-case letter of each upper-case letter.
LowerTable ==
    [c \in {CharAt(UpperChars, i) : i \in 1..Len(UpperChars)} |->
        CharAt(LowerChars,
               CHOOSE i \in 1..Len(UpperChars) : CharAt(UpperChars, i) = c)]

LowerChar(c) == IF c \in DOMAIN LowerTable THEN LowerTable[c] ELSE c

RECURSIVE toLowerCase(_)
toLowerCase(s) ==
    IF Len(s) = 0 THEN ""
    ELSE LowerChar(CharAt(s, 1)) \o toLowerCase(SubSeq(s, 2, Len(s)))

startsWith(s, prefix) ==
    Len(s) >= Len(prefix) /\ SubSeq(s, 1, Len(prefix)) = prefix

endsWith(s, suffix) ==
    Len(s) >= Len(suffix)
    /\ SubSeq(s, Len(s) - Len(suffix) + 1, Len(s)) = suffix

includes(s, part) ==
    \E i \in 1..(Len(s) - Len(part) + 1) : SubSeq(s, i, i + Len(part) - 1) = part

RECURSIVE trim(_)
trim(s) ==
    IF Len(s) = 0 THEN s
    ELSE IF CharAt(s, 1) = " " THEN trim(SubSeq(s, 2, Len(s)))
    ELSE IF CharAt(s, Len(s)) = " " THEN trim(SubSeq(s, 1, Len(s) - 1))
    ELSE s

\* filename.replace(/\.md$/, '')
StripMd(filename) ==
    IF endsWith(filename, ".md")
    THEN SubSeq(filename, 1, Len(filename) - 3)
    ELSE filename

Range(seq) == {seq[i] : i \in 1..Len(seq)}

RECURSIVE SelectSeqBy(_, _)
\* Array.prototype.filter over a sequence, for a set of kept elements.
SelectSeqBy(seq, keep) ==
    IF seq = <<>> THEN <<>>
    ELSE (IF Head(seq) \in keep THEN <<Head(seq)>> ELSE <<>>)
         \o SelectSeqBy(Tail(seq), keep)

RECURSIVE join(_, _)
\* Array.prototype.join
join(seq, sep) ==
    IF seq = <<>> THEN ""
    ELSE IF Len(seq) = 1 THEN seq[1]
    ELSE seq[1] \o sep \o join(Tail(seq), sep)

(***************************************************************************)
(* GitHubAnalyzer: the checks                                              *)
(***************************************************************************)
apiBase == "https://api.github.com"

\* The governanceFiles table of checkGovernanceFiles, in its key order.
governanceFiles ==
    << [filename |-> "LICENSE", severity |-> "critical",
        purpose |-> "usage rights and legal terms"],
       [filename |-> "CONTRIBUTING.md", severity |-> "important",
        purpose |-> "contribution process"],
       [filename |-> "CODE_OF_CONDUCT.md", severity |-> "recommended",
        purpose |-> "community standards"],
       [filename |-> "SECURITY.md", severity |-> "important",
        purpose |-> "vulnerability reporting"],
       [filename |-> "CHANGELOG.md", severity |-> "recommended",
        purpose |-> "change tracking"],
       [filename |-> "ACCESSIBILITY.md", severity |-> "recommended",
        purpose |-> "accessibility commitment and transparency"],
       [filename |-> "SUSTAINABILITY.md", severity |-> "optional",
        purpose |-> "digital sustainability and environmental impact"] >>

GovernanceNames == {governanceFiles[i].filename : i \in 1..Len(governanceFiles)}

getGovernanceRisk(filename) ==
    CASE filename = "LICENSE" ->
           "Legal uncertainty, unclear usage rights, potential compliance violations"
      [] filename = "CONTRIBUTING.md" ->
           "Contributors lack guidance, inconsistent contributions, review friction"
      [] filename = "CODE_OF_CONDUCT.md" ->
           "No community standards, potential for unaddressed harassment"
      [] filename = "SECURITY.md" ->
           "Security researchers lack reporting channel, delayed vulnerability disclosure"
      [] filename = "CHANGELOG.md" ->
           "Users cannot track changes, difficult to assess upgrade impact"
      [] filename = "ACCESSIBILITY.md" ->
           "No accessibility transparency, unclear WCAG conformance, potential barriers for disabled users"
      [] filename = "SUSTAINABILITY.md" ->
           "No sustainability policy, unclear environmental impact, missed opportunity for carbon reduction"
      [] OTHER -> "Governance gap"

\* Mutant: the .github/-prefixed lowercase .rst variant is forgotten.
variationsShort(filename) ==
    LET rstFilename == StripMd(filename) \o ".rst"
    IN  <<filename, toLowerCase(filename),
          ".github/" \o filename, ".github/" \o toLowerCase(filename)>>
        \o (IF endsWith(filename, ".md")
            THEN <<rstFilename, toLowerCase(rstFilename),
                   ".github/" \o rstFilename>>
            ELSE <<>>)

\* The variations array checkGovernanceFiles builds for one filename.
variations(filename) ==
    LET rstFilename == StripMd(filename) \o ".rst"
    IN  <<filename, toLowerCase(filename),
          ".github/" \o filename, ".github/" \o toLowerCase(filename)>>
        \o (IF endsWith(filename, ".md")
            THEN <<rstFilename, toLowerCase(rstFilename),
                   ".github/" \o rstFilename,
                   ".github/" \o toLowerCase(rstFilename)>>
            ELSE <<>>)

\* The variations of each filename of the table.
governanceVariations ==
    [filename \in GovernanceNames |-> Range(variations(filename))]

\* const foundInRepo = variations.some(v => files.has(v))
foundInRepo(files, filename) ==
    \E v \in governanceVariations[filename] : v \in files

\* Mutant: every missing governance file is reported under one title.
MissingFindingOneTitle(config) ==
    [category |-> "governance",
     severity |-> config.severity,
     title |-> "Missing governance file",
     description |-> getGovernanceRisk(config.filename),
     recommendation |-> "Add " \o config.filename,
     automated |-> FALSE,
     time_estimate |-> "15-45 minutes",
     requires_write_access |-> TRUE]
\* The finding checkGovernanceFiles pushes for a missing file.
MissingFinding(config) ==
    LET filename == config.filename
        base == "Add " \o filename \o " (or .rst equivalent) to clarify "
                \o config.purpose
    IN  [category |-> "governance",
         severity |-> config.severity,
         title |-> "Missing " \o filename,
         description |-> getGovernanceRisk(filename),
         recommendation |->
            IF filename = "ACCESSIBILITY.md"
            THEN base \o ". Template: https://github.com/mgifford/ACCESSIBILITY.md"
            ELSE IF filename = "SUSTAINABILITY.md"
            THEN base \o ". Template: https://github.com/mgifford/SUSTAINABILITY.md"
            ELSE base,
         automated |-> filename \in {"SECURITY.md", "CONTRIBUTING.md"},
         time_estimate |-> IF filename = "LICENSE" THEN "1-3 hours"
                           ELSE "15-45 minutes",
         requires_write_access |-> TRUE]

\* The limitation checkGovernanceFiles pushes for an inherited file.
InheritedLimitation(filename, owner) ==
    filename \o " inherited from organization-level https://github.com/"
    \o owner \o "/.github"

\* Mutant: an inherited file is reported as missing as well.
GovernanceOutcomeBoth(res, config, owner, inRepo, foundInOrgGithub) ==
    IF ~inRepo
    THEN [res EXCEPT
            !.findings = Append(@, MissingFinding(config)),
            !.limitations =
                IF foundInOrgGithub
                THEN Append(@, InheritedLimitation(config.filename, owner))
                ELSE @]
    ELSE res

\* The if/else-if at the end of the loop body of checkGovernanceFiles.
GovernanceOutcome(res, config, owner, inRepo, foundInOrgGithub) ==
    IF ~inRepo /\ ~foundInOrgGithub
    THEN [res EXCEPT !.findings = Append(@, MissingFinding(config))]
    ELSE IF foundInOrgGithub
    THEN [res EXCEPT !.limitations =
            Append(@, InheritedLimitation(config.filename, owner))]
    ELSE res

Finding(category, severity, title, description, recommendation, automated, time_estimate) ==
    [category |-> category, severity |-> severity, title |-> title,
     description |-> description, recommendation |-> recommendation,
     automated |-> automated, time_estimate |-> time_estimate,
     requires_write_access |-> TRUE]

\* Mutant: a missing README is an important finding.
checkReadmeImportant(files, res) ==
    LET hasReadme == \E f \in files :
            toLowerCase(f) \in {"readme.md", "readme.rst", "readme"}
    IN  IF ~hasReadme
        THEN [res EXCEPT !.findings = Append(@,
                Finding("documentation", "important", "Missing README",
                    "README is essential for communicating purpose, scope, and usage",
                    "Create README.md or README.rst with purpose, audience, scope, and basic usage",
                    TRUE, "1-3 hours"))]
        ELSE res

checkReadme(files, res) ==
    LET hasReadme == \E f \in files :
            toLowerCase(f) \in {"readme.md", "readme.rst", "readme"}
    IN  IF ~hasReadme
        THEN [res EXCEPT !.findings = Append(@,
                Finding("documentation", "critical", "Missing README",
                    "README is essential for communicating purpose, scope, and usage",
                    "Create README.md or README.rst with purpose, audience, scope, and basic usage",
                    TRUE, "1-3 hours"))]
        ELSE res

checkAboutMetadata(repoData, res) ==
    LET hasDescription == Truthy(repoData.description)
                          /\ Len(trim(repoData.description)) > 0
        hasHomepage == Truthy(repoData.homepage)
                       /\ Len(trim(repoData.homepage)) > 0
        hasTopics == repoData.topics # NULL /\ Len(repoData.topics) > 0
        f1 == IF ~hasDescription
              THEN <<Finding("documentation", "important",
                        "Missing repository description",
                        "Repository description helps users understand the project at a glance and improves discoverability",
                        "Add a clear, concise description in the About section (Settings -> Description)",
                        FALSE, "15-45 minutes")>>
              ELSE <<>>
        f2 == IF ~hasHomepage
              THEN <<Finding("documentation", "recommended",
                        "Missing repository website",
                        "A website URL (documentation, demo, or project homepage) provides quick access to additional resources",
                        "Add a website URL in the About section if documentation or demo site exists",
                        FALSE, "15-45 minutes")>>
              ELSE <<>>
        f3 == IF ~hasTopics
              THEN <<Finding("documentation", "recommended",
                        "Missing repository topics",
                        "Topics (tags) help users discover your repository through GitHub search and trending pages",
                        "Add relevant topics in the About section (e.g., language, framework, domain keywords)",
                        FALSE, "15-45 minutes")>>
              ELSE <<>>
    IN  [res EXCEPT !.findings = @ \o f1 \o f2 \o f3]

\* Mutant: the CI finding is pushed only onto an empty list of findings.
checkCIWorkflowsWhenFirst(files, res) ==
    LET hasWorkflows == \E f \in files : startsWith(f, ".github/workflows/")
    IN  IF ~hasWorkflows /\ res.findings = <<>>
        THEN [res EXCEPT !.findings = Append(@,
                Finding("testing", "important", "No CI/CD workflows detected",
                    "Automated testing and quality checks reduce bugs and improve confidence",
                    "Add GitHub Actions workflow for tests, linting, and security scanning",
                    FALSE, "1-3 hours"))]
        ELSE res
checkCIWorkflows(files, res) ==
    LET hasWorkflows == \E f \in files : startsWith(f, ".github/workflows/")
    IN  IF ~hasWorkflows
        THEN [res EXCEPT !.findings = Append(@,
                Finding("testing", "important", "No CI/CD workflows detected",
                    "Automated testing and quality checks reduce bugs and improve confidence",
                    "Add GitHub Actions workflow for tests, linting, and security scanning",
                    FALSE, "1-3 hours"))]
        ELSE res

checkCommunityFiles(files, res) ==
    LET hasIssueTemplates ==
            \E f \in files : startsWith(f, ".github/ISSUE_TEMPLATE/")
        hasPRTemplate ==
            \/ ".github/PULL_REQUEST_TEMPLATE.md" \in files
            \/ ".github/pull_request_template.md" \in files
            \/ ".github/PULL_REQUEST_TEMPLATE.rst" \in files
            \/ ".github/pull_request_template.rst" \in files
        f1 == IF ~hasIssueTemplates
              THEN <<Finding("documentation", "recommended",
                        "Missing issue templates",
                        "Issue templates guide contributors and improve issue quality",
                        "Add issue templates for bug reports and feature requests",
                        TRUE, "15-45 minutes")>>
              ELSE <<>>
        f2 == IF ~hasPRTemplate
              THEN <<Finding("documentation", "optional",
                        "Missing pull request template",
                        "PR templates ensure consistent, complete pull requests",
                        "Add .github/PULL_REQUEST_TEMPLATE.md with checklist",
                        TRUE, "15-45 minutes")>>
              ELSE <<>>
    IN  [res EXCEPT !.findings = @ \o f1 \o f2]

\* The dependencyFiles table of checkDependencies, in its key order.
dependencyFiles ==
    << <<"package.json", "npm">>, <<"requirements.txt", "pip">>,
       <<"pyproject.toml", "python">>, <<"Gemfile", "bundler">>,
       <<"go.mod", "go">>, <<"Cargo.toml", "cargo">> >>

checkDependencies(files, res) ==
    LET present == {e \in Range(dependencyFiles) : e[1] \in files}
        found == SelectSeqBy(dependencyFiles, present)
        foundDeps == [i \in 1..Len(found) |-> found[i][2]]
    IN  IF Len(foundDeps) > 0
        THEN [res EXCEPT !.limitations = Append(@,
                "Dependency vulnerability scanning for "
                \o join(foundDeps, ", ") \o " requires package analysis")]
        ELSE res

\* calculateMaturity with the important threshold off by one.
calculateMaturityAtTwo(res) ==
    LET critical == Cardinality({i \in 1..Len(res.findings) :
                        res.findings[i].severity = "critical"})
        important == Cardinality({i \in 1..Len(res.findings) :
                        res.findings[i].severity = "important"})
    IN  IF critical > 0 THEN "low"
        ELSE IF important >= 2 THEN "medium"
        ELSE "high"

calculateMaturity(res) ==
    LET critical == Cardinality({i \in 1..Len(res.findings) :
                        res.findings[i].severity = "critical"})
        important == Cardinality({i \in 1..Len(res.findings) :
                        res.findings[i].severity = "important"})
    IN  IF critical > 0 THEN "low"
        ELSE IF important > 2 THEN "medium"
        ELSE "high"

\* classifyRepository with the library rule tried before the CLI rules.
classifyRepositoryLibraryFirst(files, repoData) ==
    LET hasWebFiles == \E f \in files :
            \/ startsWith(f, "public/")
            \/ startsWith(f, "static/")
            \/ startsWith(f, "templates/")
        documentationFiles == {f \in files :
            endsWith(f, ".md") \/ endsWith(f, ".rst")}
        codeFiles == {f \in files :
            \/ endsWith(f, ".py") \/ endsWith(f, ".js")
            \/ endsWith(f, ".go") \/ endsWith(f, ".rs")}
    IN  IF ("package.json" \in files \/ "index.html" \in files) /\ hasWebFiles
        THEN "webapp"
        ELSE IF \/ "setup.py" \in files \/ "pyproject.toml" \in files
                \/ "package.json" \in files \/ "Cargo.toml" \in files
        THEN "library"
        ELSE IF \E f \in files : startsWith(f, "cmd/") \/ startsWith(f, "cli/")
        THEN "cli"
        ELSE IF 10 * Cardinality(documentationFiles) >= 7 * Cardinality(files)
        THEN "docs"
        ELSE IF ("AGENTS.md" \in files
                 \/ \E f \in files : startsWith(f, ".github/workflows"))
                /\ Cardinality(codeFiles) < 5
        THEN "config"
        ELSE "mixed"

classifyRepository(files, repoData) ==
    LET hasWebFiles == \E f \in files :
            \/ startsWith(f, "public/")
            \/ startsWith(f, "static/")
            \/ startsWith(f, "templates/")
        documentationFiles == {f \in files :
            endsWith(f, ".md") \/ endsWith(f, ".rst")}
        codeFiles == {f \in files :
            \/ endsWith(f, ".py") \/ endsWith(f, ".js")
            \/ endsWith(f, ".go") \/ endsWith(f, ".rs")}
    IN  IF ("package.json" \in files \/ "index.html" \in files) /\ hasWebFiles
        THEN "webapp"
        ELSE IF \E f \in files : startsWith(f, "cmd/") \/ startsWith(f, "cli/")
        THEN "cli"
        ELSE IF ("setup.py" \in files \/ "pyproject.toml" \in files)
                /\ \E f \in files : includes(f, "__main__.py")
        THEN "cli"
        ELSE IF \/ "setup.py" \in files \/ "pyproject.toml" \in files
                \/ "package.json" \in files \/ "Cargo.toml" \in files
        THEN "library"
        \* documentationFiles.length >= files.size * 0.7
        ELSE IF 10 * Cardinality(documentationFiles) >= 7 * Cardinality(files)
        THEN "docs"
        ELSE IF ("AGENTS.md" \in files
                 \/ \E f \in files : startsWith(f, ".github/workflows"))
                /\ Cardinality(codeFiles) < 5
        THEN "config"
        ELSE "mixed"

(***************************************************************************)
(* GitHubAnalyzer: fetchJSON and the organization-inheritance probes       *)
(***************************************************************************)
\* The ways a fetchJSON call fails: a non-2xx answer with or without a
\* message in its body, or a fetch that rejects.
FetchFailures ==
    {[kind |-> "http", status |-> 404, message |-> "Not Found"],
     [kind |-> "http", status |-> 500, message |-> NULL],
     [kind |-> "network", status |-> 0, message |-> "Failed to fetch"]}

\* The message of the error fetchJSON throws.
fetchJSONError(failure) ==
    IF failure.kind = "http"
    THEN IF Truthy(failure.message) THEN failure.message
         ELSE "GitHub API error: " \o ToString(failure.status)
    ELSE failure.message

\* The name of the error fetchJSON rejects with: the TypeError of a fetch
\* that did not complete passes through, a non-2xx answer makes an Error.
fetchJSONErrorName(failure) ==
    IF failure.kind = "network" THEN "TypeError" ELSE "Error"

\* The name of the error the catch block of analyzeRepository throws for
\* the error it caught: always a new Error.
rethrownName(name) == "Error"

Owners == {"owner" \o ToString(i) : i \in 1..NumOwners}

\* The owners whose repositories are analysed: the first and the last.
AnalysisOwners == {"owner1", "owner" \o ToString(NumOwners)}

FileCacheKey(owner, filename) == owner \o ":" \o filename
RepoCacheKey(owner) == owner \o ":_has_github_repo"

FileProbeUrl(owner, filename) ==
    apiBase \o "/repos/" \o owner \o "/.github/contents/" \o filename
RepoProbeUrl(owner) == apiBase \o "/repos/" \o owner \o "/.github"

NoPending == [fn |-> "none", key |-> NULL, url |-> NULL]
NoReturn == [fn |-> "none", key |-> NULL, value |-> FALSE, cached |-> FALSE]

\* Mutant: the cache is never consulted.
CacheMisses(cache, key) == FALSE

\* this.orgGithubCache.has(cacheKey)
CacheHas(cache, key) == key \in DOMAIN cache

\* Mutant: the answer of a probe is not kept.
CacheSetDrops(cache, key, value) == cache
\* this.orgGithubCache.set(cacheKey, value)
CacheSet(cache, key, value) == (key :> value) @@ cache

EmptyCache == [k \in {} |-> FALSE]

NoProbes == [url \in {} |-> 0]

\* How often the analyzer has fetched an org probe URL.
ProbeCount(probes, url) == IF url \in DOMAIN probes THEN probes[url] ELSE 0

\* The fetches after one more fetch of url.
Fetched(probes, url) == (url :> ProbeCount(probes, url) + 1) @@ probes

FileCacheKeys == {FileCacheKey(o, f) : o \in Owners, f \in GovernanceNames}

\* The number of org file probes this analyzer has seen answered 2xx.
InheritedCount(cache) ==
    Cardinality({k \in DOMAIN cache \cap FileCacheKeys : cache[k]})

\* The answers an org probe can get: 2xx (TRUE) or a failure of any kind,
\* which the catch blocks turn into FALSE.
ProbeAnswers(cache, fn) ==
    IF fn = "checkOrgGithubFile" /\ InheritedCount(cache) >= MaxOrgFiles
    THEN {FALSE} ELSE BOOLEAN

\* A direct call of hasOrgGithubRepo or checkOrgGithubFile, up to its return
\* from the cache or its await of fetchJSON.
CallProbe(fn, key, url) ==
    /\ pending = NoPending
    /\ anPc = "idle"
    /\ IF CacheHas(orgGithubCache, key)
       THEN /\ returned' = [fn |-> fn, key |-> key,
                            value |-> orgGithubCache[key], cached |-> TRUE]
            /\ UNCHANGED <<orgGithubCache, orgProbes, pending>>
       ELSE /\ orgProbes' = Fetched(orgProbes, url)
            /\ pending' = [fn |-> fn, key |-> key, url |-> url]
            /\ UNCHANGED <<orgGithubCache, returned>>
    /\ UNCHANGED <<pageVars, analysisVars>>

ProbeFiles == {governanceFiles[i].filename : i \in 1..NumProbeFiles}

CallHasOrgGithubRepo ==
    \E owner \in Owners :
        CallProbe("hasOrgGithubRepo", RepoCacheKey(owner), RepoProbeUrl(owner))

CallCheckOrgGithubFile ==
    \E owner \in Owners, filename \in ProbeFiles :
        CallProbe("checkOrgGithubFile", FileCacheKey(owner, filename),
                  FileProbeUrl(owner, filename))

\* The rest of a directly called probe, once its fetchJSON settled.
ProbeSettles ==
    /\ pending # NoPending
    /\ anPc = "idle"
    /\ \E found \in ProbeAnswers(orgGithubCache, pending.fn) :
        /\ orgGithubCache' = CacheSet(orgGithubCache, pending.key, found)
        /\ returned' = [fn |-> pending.fn, key |-> pending.key,
                        value |-> found, cached |-> FALSE]
    /\ pending' = NoPending
    /\ UNCHANGED <<orgProbes, pageVars, analysisVars>>

(***************************************************************************)
(* GitHubAnalyzer: analyzeRepository                                       *)
(***************************************************************************)
NoAnalysis ==
    [owner |-> NULL, repo |-> NULL, repoData |-> NULL, hasOrgGithub |-> FALSE,
     files |-> {}, govIdx |-> 0, probesBefore |-> NoProbes, error |-> NULL,
     errorName |-> NULL, failureKind |-> NULL]

\* The result object analyzeRepository starts from (analyzed_at, a
\* timestamp, and metrics, which stays empty, are left out).
NewResult(owner, repo) ==
    [repository |-> owner \o "/" \o repo, classification |-> "unknown",
     is_fork |-> FALSE, fork_upstream |-> NULL, fork_status |-> NULL,
     maturity_level |-> "low", findings |-> <<>>, limitations |-> <<>>]

\* Mutant: the org is probed for every file missing from the repository.
ShouldProbeOrgAlways(inRepo, hasOrgGithub) == ~inRepo

\* if (!foundInRepo && hasOrgGithub)
ShouldProbeOrg(inRepo, hasOrgGithub) == ~inRepo /\ hasOrgGithub

\* checkGovernanceFiles from file number i on, as far as it runs without
\* waiting for the network: to the end of the table (wait = FALSE) or to the
\* first file whose org probe is not in the cache (wait = TRUE).
RECURSIVE GovernanceRun(_, _, _, _, _, _)
GovernanceRun(i, res, files, owner, hasOrgGithub, cache) ==
    IF i > Len(governanceFiles)
    THEN [idx |-> i, res |-> res, wait |-> FALSE]
    ELSE LET config == governanceFiles[i]
             inRepo == foundInRepo(files, config.filename)
             key == FileCacheKey(owner, config.filename)
         IN  IF ShouldProbeOrg(inRepo, hasOrgGithub)
             THEN IF CacheHas(cache, key)
                  THEN GovernanceRun(i + 1,
                          GovernanceOutcome(res, config, owner, inRepo,
                                            cache[key]),
                          files, owner, hasOrgGithub, cache)
                  ELSE [idx |-> i, res |-> res, wait |-> TRUE]
             ELSE GovernanceRun(i + 1,
                          GovernanceOutcome(res, config, owner, inRepo, FALSE),
                          files, owner, hasOrgGithub, cache)

\* The checks after checkGovernanceFiles and the maturity calculation.
FinishChecks(res, files, repoData) ==
    LET r1 == checkReadme(files, res)
        r2 == checkAboutMetadata(repoData, r1)
        r3 == checkCIWorkflows(files, r2)
        r4 == checkCommunityFiles(files, r3)
        r5 == checkDependencies(files, r4)
    IN  [r5 EXCEPT !.maturity_level = calculateMaturity(r5)]

\* analyzeRepository from file number i of checkGovernanceFiles on, up to
\* its next await of an org file probe or to its return.
ContinueGovernance(i, res, a, cache) ==
    LET g == GovernanceRun(i, res, a.files, a.owner, a.hasOrgGithub, cache)
        filename == governanceFiles[g.idx].filename
    IN  IF g.wait
        THEN /\ result' = g.res
             /\ an' = [a EXCEPT !.govIdx = g.idx]
             /\ anPc' = "govProbe"
             /\ orgProbes' = Fetched(orgProbes, FileProbeUrl(a.owner, filename))
             /\ pending' = [fn |-> "checkOrgGithubFile",
                            key |-> FileCacheKey(a.owner, filename),
                            url |-> FileProbeUrl(a.owner, filename)]
        ELSE /\ result' = FinishChecks(g.res, a.files, a.repoData)
             /\ an' = [a EXCEPT !.govIdx = g.idx]
             /\ anPc' = "done"
             /\ pending' = NoPending
             /\ UNCHANGED orgProbes

\* Mutant: the catch block returns the result as far as it got.
AnalysisReturnsPartial(failure) ==
    /\ anPc' = "done"
    /\ an' = [an EXCEPT
                !.error = "Analysis failed: " \o fetchJSONError(failure),
                !.errorName = rethrownName(fetchJSONErrorName(failure)),
                !.failureKind = failure.kind]
    /\ UNCHANGED <<result, analyzerVars>>
\* catch (error) { throw new Error(`Analysis failed: ${error.message}`) }
AnalysisFails(failure) ==
    /\ anPc' = "failed"
    /\ an' = [an EXCEPT
                !.error = "Analysis failed: " \o fetchJSONError(failure),
                !.errorName = rethrownName(fetchJSONErrorName(failure)),
                !.failureKind = failure.kind]
    /\ UNCHANGED <<result, analyzerVars>>

\* analyzeRepository(owner, repo) up to its await of the metadata fetch.
BeginAnalysis(owner, repo) ==
    /\ an' = [NoAnalysis EXCEPT !.owner = owner, !.repo = repo,
                                !.probesBefore = orgProbes]
    /\ result' = NewResult(owner, repo)
    /\ anPc' = "metadata"

RepoNames == {"repo1"}

StartAnalysis ==
    /\ anPc = "idle"
    /\ pending = NoPending
    /\ \E owner \in AnalysisOwners, repo \in RepoNames :
        BeginAnalysis(owner, repo)
    /\ UNCHANGED <<analyzerVars, pageVars>>

\* The part of the metadata answer the analysis reads.
RepoDatas ==
    {[fork |-> FALSE, parent |-> NULL, default_branch |-> "main",
      description |-> "A tool", homepage |-> "", topics |-> <<>>],
     [fork |-> TRUE, parent |-> "upstream/repo1", default_branch |-> "main",
      description |-> NULL, homepage |-> "https://example.org",
      topics |-> <<"governance">>]}

\* analyzeRepository after the metadata fetch settled, for a fetch that
\* answers with one of `repoDatas`: fork status, then
\* hasOrgGithubRepo, from the cache or up to its fetch; with a cached answer
\* the tree fetch is issued at once.
MetadataResponseFrom(repoDatas) ==
    /\ anPc = "metadata"
    /\ \/ \E failure \in FetchFailures : AnalysisFails(failure)
       \/ \E repoData \in repoDatas :
            LET key == RepoCacheKey(an.owner)
                cached == CacheHas(orgGithubCache, key)
            IN  /\ result' =
                     IF repoData.parent # NULL
                     THEN [result EXCEPT
                             !.is_fork = repoData.fork,
                             !.fork_upstream = repoData.parent,
                             !.fork_status = "unknown",
                             !.limitations = Append(@,
                                "Fork ahead/behind status requires additional API calls")]
                     ELSE [result EXCEPT !.is_fork = repoData.fork]
                /\ an' = [an EXCEPT
                            !.repoData = repoData,
                            !.hasOrgGithub =
                                IF cached THEN orgGithubCache[key] ELSE FALSE]
                /\ anPc' = IF cached THEN "tree" ELSE "hasOrg"
                /\ orgProbes' = IF cached THEN orgProbes
                                ELSE Fetched(orgProbes, RepoProbeUrl(an.owner))
                /\ pending' = IF cached THEN NoPending
                              ELSE [fn |-> "hasOrgGithubRepo", key |-> key,
                                    url |-> RepoProbeUrl(an.owner)]
                /\ UNCHANGED <<orgGithubCache, returned>>
    /\ UNCHANGED pageVars

\* hasOrgGithubRepo after its fetch settled; the tree fetch is issued.
HasOrgResponse ==
    /\ anPc = "hasOrg"
    /\ \E found \in ProbeAnswers(orgGithubCache, pending.fn) :
        /\ orgGithubCache' = CacheSet(orgGithubCache, pending.key, found)
        /\ an' = [an EXCEPT !.hasOrgGithub = found]
    /\ pending' = NoPending
    /\ anPc' = "tree"
    /\ UNCHANGED <<orgProbes, returned, result, pageVars>>

\* analyzeRepository after the tree fetch settled, for a tree fetch that
\* answers with one of `trees`: classification, then the checks.
TreeResponseFrom(trees) ==
    /\ anPc = "tree"
    /\ \/ \E failure \in FetchFailures : AnalysisFails(failure)
       \/ \E files \in trees :
            /\ ContinueGovernance(1,
                  [result EXCEPT !.classification =
                                    classifyRepository(files, an.repoData)],
                  [an EXCEPT !.files = files], orgGithubCache)
            /\ UNCHANGED <<orgGithubCache, returned>>
    /\ UNCHANGED pageVars

\* Mutant: a failed org file probe ends the analysis.
FileProbeResponseFatal ==
    /\ anPc = "govProbe"
    /\ \/ \E failure \in FetchFailures :
            AnalysisFails(failure) /\ UNCHANGED <<orgGithubCache, orgProbes>>
       \/ LET cache == CacheSet(orgGithubCache, pending.key, TRUE)
          IN  /\ TRUE \in ProbeAnswers(orgGithubCache, pending.fn)
              /\ orgGithubCache' = cache
              /\ ContinueGovernance(an.govIdx + 1,
                    GovernanceOutcome(result, governanceFiles[an.govIdx],
                                      an.owner, FALSE, TRUE),
                    an, cache)
              /\ UNCHANGED returned
    /\ UNCHANGED pageVars
\* checkOrgGithubFile after its fetch settled, and the rest of
\* checkGovernanceFiles up to the next await or the end of the analysis.
FileProbeResponse ==
    /\ anPc = "govProbe"
    /\ \E found \in ProbeAnswers(orgGithubCache, pending.fn) :
        LET cache == CacheSet(orgGithubCache, pending.key, found)
        IN  /\ orgGithubCache' = cache
            /\ ContinueGovernance(an.govIdx + 1,
                  GovernanceOutcome(result, governanceFiles[an.govIdx],
                                    an.owner, FALSE, found),
                  an, cache)
    /\ UNCHANGED <<returned, pageVars>>

\* The governance filenames.
GovernanceSet ==
    {"LICENSE", "CONTRIBUTING.md", "CODE_OF_CONDUCT.md", "SECURITY.md",
     "CHANGELOG.md", "ACCESSIBILITY.md", "SUSTAINABILITY.md"}

\* The paths a repository keeps each governance file under: the documented
\* variants of its name, spelled out.
DocumentedNames ==
    [X \in GovernanceSet |->
        CASE X = "LICENSE" -> {"LICENSE", "license"}
          [] X = "CONTRIBUTING.md" ->
               {"CONTRIBUTING.md", "contributing.md",
                "CONTRIBUTING.rst", "contributing.rst"}
          [] X = "CODE_OF_CONDUCT.md" ->
               {"CODE_OF_CONDUCT.md", "code_of_conduct.md",
                "CODE_OF_CONDUCT.rst", "code_of_conduct.rst"}
          [] X = "SECURITY.md" ->
               {"SECURITY.md", "security.md", "SECURITY.rst", "security.rst"}
          [] X = "CHANGELOG.md" ->
               {"CHANGELOG.md", "changelog.md",
                "CHANGELOG.rst", "changelog.rst"}
          [] X = "ACCESSIBILITY.md" ->
               {"ACCESSIBILITY.md", "accessibility.md",
                "ACCESSIBILITY.rst", "accessibility.rst"}
          [] X = "SUSTAINABILITY.md" ->
               {"SUSTAINABILITY.md", "sustainability.md",
                "SUSTAINABILITY.rst", "sustainability.rst"}]

DocumentedVariants ==
    [X \in GovernanceSet |->
        DocumentedNames[X] \cup {".github/" \o n : n \in DocumentedNames[X]}]

GovernancePaths == UNION {DocumentedVariants[X] : X \in GovernanceSet}

\* Paths no governance check looks for, two of them near misses.
OtherPaths == {"README.md", ".github/workflows/ci.yml", "package.json",
               "License", "docs/SECURITY.md"}

\* The trees the tree fetch answers with: no governance file, one governance
\* file under one of its paths, or all of them; alone or among other files.
Trees ==
    {g \cup o : g \in {{}} \cup {{p} : p \in GovernancePaths}
                          \cup {GovernanceSet},
                o \in {{}, {".github/workflows/ci.yml"}, OtherPaths}}

TreeResponse == TreeResponseFrom(Trees)

MetadataResponse == MetadataResponseFrom(RepoDatas)

(***************************************************************************)
(* The page: sections, messages and the analysis cache                     *)
(***************************************************************************)
\* Most repositories a listing answers with.
perPage == 100

\* getGitHubToken(): the OAuth token if one is persisted, else the
\* configured one.
\* getGitHubToken with the configured token tried first.
getGitHubTokenConfigFirst(storage, config) ==
    IF Truthy(config.GITHUB_TOKEN) THEN config.GITHUB_TOKEN
    ELSE IF isAuthenticated(storage) THEN getToken(storage)
    ELSE ""

getGitHubToken(storage, config) ==
    IF isAuthenticated(storage) THEN getToken(storage)
    ELSE IF Truthy(config.GITHUB_TOKEN) THEN config.GITHUB_TOKEN ELSE ""

NoUi ==
    [error |-> FALSE, info |-> FALSE, results |-> FALSE, loading |-> FALSE,
     cacheStatus |-> FALSE, errorMessage |-> "", infoMessage |-> "",
     displayed |-> <<>>, analyzeDisabled |-> FALSE]

hideAllSections(u) ==
    [u EXCEPT !.error = FALSE, !.info = FALSE, !.results = FALSE]

showError(u, message) ==
    IF ~Truthy(message) \/ Len(trim(message)) = 0 THEN u
    ELSE [u EXCEPT !.errorMessage = message, !.error = TRUE,
                   !.info = FALSE, !.results = FALSE]

showInfo(u, message) ==
    IF ~Truthy(message) \/ Len(trim(message)) = 0 THEN u
    ELSE [u EXCEPT !.infoMessage = message, !.info = TRUE, !.error = FALSE]

\* The displayResults that is in force (the later of the two definitions).
displayResults(u, results) ==
    IF Len(results) = 0
    THEN showError(u, "No results to display. This could mean: (1) All repositories were skipped as forks, (2) No repositories were found, or (3) All analyses failed. Check the browser console for details.")
    ELSE [u EXCEPT !.displayed = results, !.error = FALSE, !.results = TRUE]

\* Mutant: the finally block hides the loading indicator only.
FinallyKeepsDisabled(u) == [u EXCEPT !.loading = FALSE]
\* The finally block of handleAnalyze.
Finally(u) == [u EXCEPT !.loading = FALSE, !.analyzeDisabled = FALSE]

\* The message the catch block of handleAnalyze shows for an error.
ErrorDetails(message) ==
    IF includes(message, "404")
    THEN message \o "\n\nTip: Make sure the repository or user/organization exists and is accessible."
    ELSE IF includes(message, "403") \/ includes(message, "rate limit")
    THEN message \o "\n\nTip: You may have hit the GitHub API rate limit. Try authenticating or wait for the limit to reset."
    ELSE IF includes(message, "Network")
    THEN message \o "\n\nTip: Check your internet connection. If you're running locally, make sure you're using an HTTP server (not file://)."
    ELSE message

\* The notice handleAnalyze shows when it runs without a token.
RateLimitNotice(config) ==
    IF Truthy(config.GITHUB_OAUTH_CLIENT_ID)
    THEN "Not authenticated. Click \"Sign in with GitHub\" above for higher rate limits (5,000/hour) vs. 60/hour unauthenticated."
    ELSE "Analyzing public repositories only. Without authentication, you're limited to 60 API requests/hour."

\* The warning analyzeBatch shows after a partial failure.
PartialWarning(succeeded, failedCount, token) ==
    "Partial analysis: " \o ToString(succeeded)
    \o " repositories analyzed successfully, but " \o ToString(failedCount)
    \o " failed. "
    \o (IF ~Truthy(token)
        THEN "You are not authenticated. Without authentication, you are limited to 60 API requests per hour."
        ELSE "This may be due to rate limiting or individual repository access issues. Check the browser console for details.")

storagePrefix == "tune-my-repos-cache-"

\* Mutant: the key names the target only.
generateKeyOfTargetOnly(target, skipForks) ==
    storagePrefix \o toLowerCase(trim(target))
\* AnalysisCache.generateKey
generateKey(target, skipForks) ==
    storagePrefix \o toLowerCase(trim(target)) \o "-skipForks:"
    \o (IF skipForks THEN "true" ELSE "false")

\* new AnalysisCache(60): this.ttl, in milliseconds
ttl == 60 * 60 * 1000

\* localStorage as the cache sees it, with the reading of Date.now().
NoAnalysisCache ==
    [entries |-> [k \in {} |-> <<>>], stats |-> [hits |-> 0, sets |-> 0, size |-> 0], now |-> 0]

\* AnalysisCache.updateStats
updateStats(cache, operation) ==
    [cache EXCEPT
        !.stats = [hits |-> IF operation = "hit" THEN @.hits + 1 ELSE @.hits,
                   sets |-> IF operation = "set" THEN @.sets + 1 ELSE @.sets,
                   size |-> Cardinality(DOMAIN cache.entries)]]

\* AnalysisCache.set
AnalysisCacheSet(cache, target, skipForks, results, stats) ==
    updateStats(
        [cache EXCEPT !.entries =
            (generateKey(target, skipForks) :>
                [target |-> target, skipForks |-> skipForks,
                 results |-> results, analysisStats |-> <<stats>>,
                 timestamp |-> cache.now,
                 \* history: the stats of the run that wrote the entry
                 runStats |-> stats]) @@ @],
        "set")

\* Mutant: an entry expires when its age reaches the TTL.
AnalysisCacheGetExpiresAtTtl(cache, target, skipForks) ==
    LET key == generateKey(target, skipForks)
    IN  IF key \notin DOMAIN cache.entries
        THEN [hit |-> FALSE, cache |-> cache]
        ELSE IF cache.now - cache.entries[key].timestamp >= ttl
        THEN [hit |-> FALSE,
              cache |-> [cache EXCEPT !.entries =
                            [k \in DOMAIN @ \ {key} |-> @[k]]]]
        ELSE [hit |-> TRUE, results |-> cache.entries[key].results,
              analysisStats |-> cache.entries[key].analysisStats,
              cache |-> updateStats(cache, "hit")]
\* AnalysisCache.get: what it returns (hit, and the entry if so) and the
\* cache it leaves; an entry older than the TTL is deleted and missed.
AnalysisCacheGet(cache, target, skipForks) ==
    LET key == generateKey(target, skipForks)
    IN  IF key \notin DOMAIN cache.entries
        THEN [hit |-> FALSE, cache |-> cache]
        ELSE IF cache.now - cache.entries[key].timestamp > ttl
        THEN [hit |-> FALSE,
              cache |-> [cache EXCEPT !.entries =
                            [k \in DOMAIN @ \ {key} |-> @[k]]]]
        ELSE [hit |-> TRUE, results |-> cache.entries[key].results,
              analysisStats |-> cache.entries[key].analysisStats,
              cache |-> updateStats(cache, "hit")]

(***************************************************************************)
(* The page: handleAnalyze and analyzeBatch                                *)
(***************************************************************************)
\* What the user types into the target field.
Targets == {"", "owner1", "owner1/repo1"}

NoBatch ==
    [target |-> "", skipForks |-> FALSE, forceRefresh |-> FALSE, token |-> "",
     reposEndpoint |-> NULL, currentPage |-> 1, allRepos |-> <<>>,
     repos |-> <<>>, i |-> 0, batchResults |-> <<>>, failedCount |-> 0,
     attempted |-> <<>>, accountAnswer |-> NULL, pagesRequested |-> <<>>,
     \* this.token of the run's GitHubAnalyzer, and the Authorization header
     \* of analyzeBatch's own requests (NULL: no such header)
     analyzerToken |-> NULL, authorization |-> NULL,
     \* history: the submits so far that named a target, and the analysis
     \* cache as the last of them found it
     runs |-> 0, cacheBefore |-> NoAnalysisCache,
     paginationState |-> [userOrOrg |-> NULL, page |-> 1, hasMore |-> FALSE]]

RECURSIVE IndexOf(_, _, _)
\* The first position from i on at which the character c is in s, or 0.
IndexOf(s, c, i) ==
    IF i > Len(s) THEN 0
    ELSE IF CharAt(s, i) = c THEN i
    ELSE IndexOf(s, c, i + 1)

\* const [owner, repo] = targetValue.split('/', 2)
SplitTarget(target) ==
    LET first == IndexOf(target, "/", 1)
        second == IndexOf(target, "/", first + 1)
    IN  [owner |-> SubSeq(target, 1, first - 1),
         repo |-> SubSeq(target, first + 1,
                         IF second = 0 THEN Len(target) ELSE second - 1)]

\* The answers of the account probe: a 2xx with a type, a non-2xx, a
\* rejected fetch.
AccountAnswers == {"Organization", "User", "not_ok", "throws"}

\* The ways a listing fetch fails.
ListingFailures ==
    {[kind |-> "network", text |-> "Failed to fetch"],
     [kind |-> "http", text |-> "HTTP 404 Not Found: Not Found"],
     [kind |-> "http",
      text |-> "HTTP 403 Forbidden: API rate limit exceeded Rate limit exceeded. Resets at <time>"]}

\* The message of the error analyzeBatch throws for a failed listing fetch.
ListingError(failure) ==
    IF failure.kind = "network"
    THEN "Network error fetching repositories: " \o failure.text
         \o ". Make sure you're serving the app via HTTP server (not file://) or use authentication."
    ELSE "Failed to fetch repositories: " \o failure.text

\* A listing page of n repositories of an account, those of `forks` forks.
ListingPage(login, first, n, forks) ==
    [k \in 1..n |->
        [name |-> "repo" \o ToString(first + k - 1),
         full_name |-> login \o "/repo" \o ToString(first + k - 1),
         owner |-> login,
         fork |-> k \in forks]]

SelectNonForks(repos) == SelectSeq(repos, LAMBDA repo : ~repo.fork)

\* Mutant: the catch block caches what the run has.
RunFailsAndCaches(message) ==
    /\ ui' = Finally(showError(ui, ErrorDetails(message)))
    /\ batchPc' = "finished"
    /\ analysisCache' = AnalysisCacheSet(analysisCache, batch.target,
                            batch.skipForks, allResults, analysisStats)
    /\ UNCHANGED <<batch, allResults, analysisStats>>
\* handleAnalyze leaves through its catch block with an error.
RunFails(message) ==
    /\ ui' = Finally(showError(ui, ErrorDetails(message)))
    /\ batchPc' = "finished"
    /\ UNCHANGED <<batch, allResults, analysisStats, analysisCache>>

\* The submit handler of the form, up to its return or its first await.
\* The restored stats counted from the cached results whatever the entry
\* holds.
restoredStatsRecounted(cached) ==
    [succeeded |-> Len(cached.results), failed |-> 0,
     total |-> Len(cached.results)]

\* analysisStats as handleAnalyze restores it from a cache hit: the cached
\* stats, or for an entry without stats one success per cached result.
restoredStats(cached) ==
    IF cached.analysisStats # <<>>
    THEN cached.analysisStats[1]
    ELSE [succeeded |-> Len(cached.results), failed |-> 0,
          total |-> Len(cached.results)]

\* The Authorization header that fetchJSON and analyzeBatch build from a
\* token: none for an empty token.
authorizationHeader(token) ==
    IF Truthy(token) THEN "token " \o token ELSE NULL

\* Mutant: a run goes on with the analyzer of the run before it.
analyzerReused(earlier) == earlier

\* const analyzer = new GitHubAnalyzer(token): the analyzer of a run is a
\* new one, with an empty Map, whatever analyzer an earlier run left.
analyzerOfRun(earlier) == [orgGithubCache |-> EmptyCache, orgProbes |-> NoProbes]

\* Mutant: the cache is asked whatever the "Force refresh" box says.
cachedWhateverForce(forceRefresh, cache, target, skipForks) ==
    AnalysisCacheGet(cache, target, skipForks)

\* if (!forceRefresh && window.analysisCache) cached = analysisCache.get(..):
\* with "Force refresh" checked there is no lookup and nothing is cached.
cachedFor(forceRefresh, cache, target, skipForks) ==
    IF forceRefresh THEN [hit |-> FALSE, cache |-> cache]
    ELSE AnalysisCacheGet(cache, target, skipForks)

\* handleAnalyze for a page at one of the positions pcs and a target field
\* holding one of targets.
HandleAnalyzeWhen(pcs, targets) ==
    /\ batchPc \in pcs
    /\ ~ui.analyzeDisabled
    /\ \E target \in targets, skipForks \in BOOLEAN, forceRefresh \in BOOLEAN :
        LET targetValue == trim(target)
            token == getGitHubToken(sessionStorage, CONFIG)
            looked == cachedFor(forceRefresh, analysisCache, targetValue,
                                skipForks)
            u1 == [ui EXCEPT !.cacheStatus = FALSE]
            u2 == IF ~Truthy(token) THEN showInfo(u1, RateLimitNotice(CONFIG))
                  ELSE u1
            run == [NoBatch EXCEPT !.target = targetValue,
                                   !.skipForks = skipForks,
                                   !.forceRefresh = forceRefresh,
                                   !.token = token,
                                   !.runs = batch.runs + 1,
                                   !.cacheBefore = analysisCache]
        IN  IF ~Truthy(targetValue)
            THEN /\ ui' = showError(ui,
                        "Please enter a GitHub user, organization, or repository")
                 /\ UNCHANGED <<batchPc, batch, allResults, analysisStats,
                                analysisCache, analyzerVars, analysisVars>>
            ELSE IF looked.hit
            THEN /\ allResults' = looked.results
                 /\ analysisStats' = restoredStats(looked)
                 /\ ui' = displayResults([ui EXCEPT !.cacheStatus = TRUE],
                                         looked.results)
                 /\ analysisCache' = looked.cache
                 /\ batchPc' = "finished"
                 /\ batch' = run
                 /\ UNCHANGED <<analyzerVars, analysisVars>>
            ELSE /\ ui' = [hideAllSections(u2) EXCEPT !.loading = TRUE,
                                                      !.analyzeDisabled = TRUE]
                 /\ allResults' = <<>>
                 /\ analysisCache' = looked.cache
                 /\ batch' =
                        [run EXCEPT
                            !.analyzerToken = token,
                            \* analyzeBatch asks getGitHubToken() again
                            !.authorization =
                                IF includes(targetValue, "/") THEN NULL
                                ELSE authorizationHeader(
                                        getGitHubToken(sessionStorage, CONFIG))]
                 /\ LET analyzer == analyzerOfRun([orgGithubCache |-> orgGithubCache,
                                                    orgProbes |-> orgProbes])
                    IN  /\ orgGithubCache' = analyzer.orgGithubCache
                        /\ orgProbes' = analyzer.orgProbes
                 /\ pending' = NoPending
                 /\ returned' = NoReturn
                 /\ IF includes(targetValue, "/")
                    THEN /\ batchPc' = "single"
                         /\ BeginAnalysis(SplitTarget(targetValue).owner,
                                          SplitTarget(targetValue).repo)
                    ELSE /\ batchPc' = "account"
                         /\ UNCHANGED analysisVars
                 /\ UNCHANGED analysisStats
    /\ UNCHANGED <<authVars, cardVars>>

\* The first submit of the form after the page loaded.
HandleAnalyze == HandleAnalyzeWhen({"idle"}, Targets)

\* A later submit, once the run before it is over.
HandleAnalyzeAgain ==
    /\ batch.runs < MaxRuns
    /\ HandleAnalyzeWhen({"finished"}, Targets)

\* analyzeBatch after the account probe settled: the listing endpoint is
\* chosen and the first page is requested.
\* The endpoint choice with only a User answer leading to /users.
reposEndpointOrgsUnlessUser(answer, userOrOrg) ==
    IF answer # "User"
    THEN "https://api.github.com/orgs/" \o userOrOrg \o "/repos"
    ELSE "https://api.github.com/users/" \o userOrOrg \o "/repos"

\* reposEndpoint as the try/catch around the account probe leaves it.
reposEndpointFor(answer, userOrOrg) ==
    IF answer = "Organization"
    THEN "https://api.github.com/orgs/" \o userOrOrg \o "/repos"
    ELSE "https://api.github.com/users/" \o userOrOrg \o "/repos"

AccountResponse ==
    /\ batchPc = "account"
    /\ \E answer \in AccountAnswers :
        batch' = [batch EXCEPT
            !.reposEndpoint = reposEndpointFor(answer, batch.target),
            !.accountAnswer = answer,
            \* the loop's first fetch: page = currentPage
            !.pagesRequested = <<batch.currentPage>>]
    /\ batchPc' = "listing"
    /\ UNCHANGED <<ui, allResults, analysisStats, analysisCache, analyzerVars,
                   analysisVars, authVars, cardVars>>

\* Mutant: a failed analysis ends the loop.
NextIndexOrAbort(i, n, failed) == IF failed THEN n + 1 ELSE i + 1

\* The loop over repos goes on with the next repository, whether the
\* analysis of repository i returned or threw.
NextIndex(i, n, failed) == i + 1

\* Mutant: the partial-failure warning is never shown.
NeverWarns(failedCount) == FALSE

\* if (failedCount > 0), before the warning
WarnsOfFailures(failedCount) == failedCount > 0

\* analyzeBatch after its loop, and the finally block of handleAnalyze.
EndOfBatch(b) ==
    LET succeeded == Len(b.batchResults)
        stats == [succeeded |-> succeeded, failed |-> b.failedCount,
                  total |-> Len(b.repos)]
    IN  /\ analysisStats' = stats
        /\ batchPc' = "finished"
        /\ batch' = b
        /\ IF b.failedCount > 0 /\ succeeded = 0
           THEN /\ ui' = Finally(showError(ui,
                        "All " \o ToString(b.failedCount)
                        \o " repository analyses failed. Check the browser console for details."))
                /\ UNCHANGED <<allResults, analysisCache>>
           ELSE /\ allResults' = b.batchResults
                /\ analysisCache' = AnalysisCacheSet(analysisCache, b.target,
                                        b.skipForks, b.batchResults, stats)
                /\ ui' = Finally(displayResults(
                            IF WarnsOfFailures(b.failedCount)
                            THEN showInfo(ui, PartialWarning(succeeded,
                                              b.failedCount, b.token))
                            ELSE ui,
                            b.batchResults))

\* analyzeBatch from the end of the listing on: the fork filter, then the
\* first analysis, or the return for an empty list.
AfterListing(b) ==
    LET nonForks == IF b.skipForks THEN SelectNonForks(b.allRepos)
                    ELSE b.allRepos
        skippedCount == Len(b.allRepos) - Len(nonForks)
        u1 == IF skippedCount > 0
              THEN IF Len(nonForks) = 0
                   THEN showInfo(ui, "All " \o ToString(Len(b.allRepos))
                            \o " repositories were forks and were skipped. Uncheck \"Skip forked repositories\" to analyze them.")
                   ELSE showInfo(ui, "Skipped " \o ToString(skippedCount)
                            \o " forked repositories. Analyzing "
                            \o ToString(Len(nonForks)) \o " non-fork repositories.")
              ELSE ui
        b1 == [b EXCEPT !.repos = nonForks,
                        !.paginationState = [userOrOrg |-> b.target,
                                             page |-> b.currentPage,
                                             hasMore |-> FALSE]]
    IN  IF Len(nonForks) = 0
        THEN /\ ui' = Finally(showError(u1,
                        "No repositories found for " \o b.target))
             /\ batchPc' = "finished"
             /\ batch' = b1
             /\ UNCHANGED <<allResults, analysisStats, analysisCache,
                            analysisVars>>
        ELSE /\ ui' = u1
             /\ batchPc' = "analyzing"
             /\ batch' = [b1 EXCEPT !.i = 1,
                            !.attempted = <<nonForks[1].full_name>>]
             /\ BeginAnalysis(nonForks[1].owner, nonForks[1].name)
             /\ UNCHANGED <<allResults, analysisStats, analysisCache>>

\* The paging test with the loop going on until a page comes back empty.
hasMorePagesUntilEmpty(repos) == Len(repos) # 0

\* hasMorePages after a page of repos: false for an empty page and for a
\* page of fewer than 100 entries.
hasMorePages(repos) == Len(repos) # 0 /\ ~(Len(repos) < perPage)

\* analyzeBatch after a listing fetch settled, for the pages the API may
\* answer with: page p of an account starts at its entry (p - 1) * 100 + 1.
\* Accounts have at most MaxFullPages full pages.
ListingResponseFrom(pages) ==
    /\ batchPc = "listing"
    /\ \/ /\ \E failure \in ListingFailures : RunFails(ListingError(failure))
          /\ UNCHANGED analysisVars
       \/ \E answer \in pages :
            /\ answer.n >= perPage => batch.currentPage <= MaxFullPages
            /\ LET page == ListingPage(batch.target,
                                       (batch.currentPage - 1) * perPage + 1,
                                       answer.n, answer.forks)
                   b == IF Len(page) = 0 THEN batch
                        ELSE [batch EXCEPT !.allRepos = @ \o page]
               IN  IF hasMorePages(page)
                   THEN /\ batch' = [b EXCEPT
                                !.currentPage = @ + 1,
                                !.pagesRequested =
                                    Append(@, batch.currentPage + 1)]
                        /\ UNCHANGED <<batchPc, ui, allResults, analysisStats,
                                       analysisCache, analysisVars>>
                   ELSE AfterListing(b)
    /\ UNCHANGED <<analyzerVars, authVars, cardVars>>

\* Listing pages of up to MaxRepos repositories with any of them forks.
ShortPages ==
    {a \in [n : 0..MaxRepos, forks : SUBSET (1..MaxRepos)] :
        a.forks \subseteq 1..a.n}

ListingResponse == ListingResponseFrom(ShortPages)

\* Mutant: the new result goes to the front of the list.
unshift(array, x) == <<x>> \o array

\* batchResults.push(result)
push(array, x) == Append(array, x)

\* The loop of analyzeBatch after analyzeRepository returned or threw for
\* repository i: the result is kept or the failure counted, then the next
\* analysis starts or the batch ends.
RepositoryAnalyzed ==
    /\ batchPc = "analyzing"
    /\ anPc \in {"done", "failed"}
    /\ LET failed == anPc = "failed"
           b1 == IF failed THEN [batch EXCEPT !.failedCount = @ + 1]
                 ELSE [batch EXCEPT !.batchResults = push(@, result)]
           next == NextIndex(batch.i, Len(batch.repos), failed)
       IN  IF next <= Len(batch.repos)
           THEN /\ batch' = [b1 EXCEPT !.i = next,
                    !.attempted = Append(@, batch.repos[next].full_name)]
                /\ BeginAnalysis(batch.repos[next].owner, batch.repos[next].name)
                /\ UNCHANGED <<batchPc, ui, allResults, analysisStats,
                               analysisCache>>
           ELSE /\ EndOfBatch([b1 EXCEPT !.i = next])
                /\ UNCHANGED analysisVars
    /\ UNCHANGED <<analyzerVars, authVars, cardVars>>

\* handleAnalyze in single-repository mode after analyzeRepository returned
\* or threw.
SingleAnalyzed ==
    /\ batchPc = "single"
    /\ anPc \in {"done", "failed"}
    /\ IF anPc = "done"
       THEN LET stats == [succeeded |-> 1, failed |-> 0, total |-> 1]
            IN  /\ allResults' = <<result>>
                /\ analysisStats' = stats
                /\ analysisCache' = AnalysisCacheSet(analysisCache, batch.target,
                                        batch.skipForks, <<result>>, stats)
                /\ ui' = Finally(displayResults(ui, <<result>>))
                /\ batchPc' = "finished"
                /\ UNCHANGED batch
       ELSE RunFails(an.error)
    /\ UNCHANGED <<analyzerVars, analysisVars, authVars, cardVars>>

\* The answers of the network to the analyses of a run.
RunRepoDatas ==
    {[fork |-> FALSE, parent |-> NULL, default_branch |-> "main",
      description |-> "A tool", homepage |-> "https://example.org",
      topics |-> <<"governance">>]}

RunTrees ==
    {GovernanceSet \cup OtherPaths,
     (GovernanceSet \ {"SUSTAINABILITY.md"}) \cup OtherPaths}

RunMetadataResponse ==
    /\ batchPc \in {"analyzing", "single"}
    /\ MetadataResponseFrom(RunRepoDatas)

RunTreeResponse ==
    /\ batchPc \in {"analyzing", "single"}
    /\ TreeResponseFrom(RunTrees)

(***************************************************************************)
(* The page: priorities.json, sortFindings and the repository cards        *)
(***************************************************************************)
\* The value of a property that an object does not have.
undefined == "<undefined>"

\* const severityOrder = { critical: 0, important: 1, recommended: 2,
\* optional: 3 }
severityOrder ==
    [severity \in {"critical", "important", "recommended", "optional"} |->
        CASE severity = "critical" -> 0
          [] severity = "important" -> 1
          [] severity = "recommended" -> 2
          [] severity = "optional" -> 3]

\* The comparator of the severity branch.
severityCompare(a, b) == severityOrder[a.severity] - severityOrder[b.severity]

\* priorityMap.get(title) after prioritiesConfig.priorities.forEach(p =>
\* priorityMap.set(p.title, p)): the last entry with that title, or
\* undefined.
priorityMapGet(config, title) ==
    LET at == {i \in DOMAIN config.priorities :
                    config.priorities[i].title = title}
    IN  IF at = {} THEN <<>>
        ELSE <<config.priorities[CHOOSE i \in at : \A j \in at : j <= i]>>

\* The priority comparator with both entries treated alike when only one
\* finding has one.
priorityCompareNoPrecedence(config, a, b) ==
    LET aPriority == priorityMapGet(config, a.title)
        bPriority == priorityMapGet(config, b.title)
    IN  IF aPriority # <<>> /\ bPriority # <<>>
        THEN aPriority[1].priority - bPriority[1].priority
        ELSE severityCompare(a, b)

\* The comparator of the priority branch.
priorityCompare(config, a, b) ==
    LET aPriority == priorityMapGet(config, a.title)
        bPriority == priorityMapGet(config, b.title)
    IN  IF aPriority # <<>> /\ bPriority # <<>>
        THEN aPriority[1].priority - bPriority[1].priority
        ELSE IF aPriority # <<>> THEN -1
        ELSE IF bPriority # <<>> THEN 1
        ELSE severityCompare(a, b)

\* The branch test without its look at the strategy.
usesSeverityOrderWithoutConfig(config) == config = <<>>

\* !prioritiesConfig || prioritiesConfig.options.sort_strategy !== 'priority'
usesSeverityOrder(config) ==
    \/ config = <<>>
    \/ config[1].options.sort_strategy # "priority"

\* The comparator sortFindings hands to Array.prototype.sort.
compareFindings(config, a, b) ==
    IF usesSeverityOrder(config) THEN severityCompare(a, b)
    ELSE priorityCompare(config[1], a, b)

\* An insertion that puts the element before the elements it ties with.
insertBeforeTies(config, sorted, x) ==
    LET notAfter == {j \in DOMAIN sorted : compareFindings(config, sorted[j], x) < 0}
        k == IF notAfter = {} THEN 0
             ELSE CHOOSE j \in notAfter : \A i \in notAfter : i <= j
    IN  SubSeq(sorted, 1, k) \o <<x>> \o SubSeq(sorted, k + 1, Len(sorted))

\* One insertion of a stable sort: x, which follows every element of
\* sorted in the input, goes right after the last element that does not
\* compare greater than it.
insert(config, sorted, x) ==
    LET notAfter == {j \in DOMAIN sorted : compareFindings(config, sorted[j], x) <= 0}
        k == IF notAfter = {} THEN 0
             ELSE CHOOSE j \in notAfter : \A i \in notAfter : i <= j
    IN  SubSeq(sorted, 1, k) \o <<x>> \o SubSeq(sorted, k + 1, Len(sorted))

\* Array.prototype.sort with the comparator of sortFindings: a stable sort
\* (ECMAScript 2019), here by insertion of the first n elements in turn.
RECURSIVE sort(_, _, _)
sort(config, array, n) ==
    IF n = 0 THEN <<>>
    ELSE insert(config, sort(config, array, n - 1), array[n])

\* sortFindings(findings) with the global prioritiesConfig: the array it
\* was handed as it is after the call, and the array it returns.
sortFindings(findings, config) ==
    LET copy == findings
    IN  [findings |-> findings,
         returns |-> sort(config, copy, Len(copy))]

\* No createRepoCard call yet.
NoCard == [created |-> FALSE, passed |-> <<>>, config |-> <<>>,
           findings |-> <<>>, sortedFindings |-> <<>>]

\* Findings as sortFindings reads them: a title and a severity, taken from
\* the findings the analyzer emits.
CardFindings ==
    {[title |-> "Missing LICENSE", severity |-> "critical"],
     [title |-> "Missing README", severity |-> "critical"],
     [title |-> "Missing SECURITY.md", severity |-> "important"],
     [title |-> "Missing CHANGELOG.md", severity |-> "recommended"],
     [title |-> "Missing pull request template", severity |-> "optional"]}

\* result.findings of the card: up to MaxFindings different findings in
\* any order.
RECURSIVE FindingListsOf(_)
FindingListsOf(n) ==
    IF n = 0 THEN {<<>>}
    ELSE FindingListsOf(n - 1)
         \cup {Append(l, f) : l \in {k \in FindingListsOf(n - 1) : Len(k) = n - 1},
                              f \in CardFindings}

FindingLists ==
    {l \in FindingListsOf(MaxFindings) :
        \A i, j \in DOMAIN l : i # j => l[i] # l[j]}

\* The priorities arrays of priorities.json: none, one that follows the
\* severities, and one that goes against them and repeats a number.
PriorityTables ==
    {<<>>,
     <<[title |-> "Missing LICENSE", priority |-> 1],
       [title |-> "Missing SECURITY.md", priority |-> 2]>>,
     <<[title |-> "Missing pull request template", priority |-> 1],
       [title |-> "Missing SECURITY.md", priority |-> 5],
       [title |-> "Missing README", priority |-> 5],
       [title |-> "Missing CHANGELOG.md", priority |-> 3]>>}

\* options.sort_strategy of priorities.json, undefined when it is not set.
SortStrategies == {"priority", "severity", undefined}

PrioritiesConfigs ==
    {[priorities |-> t, options |-> [sort_strategy |-> st]] :
        t \in PriorityTables, st \in SortStrategies}

\* loadPrioritiesConfig after its fetch of priorities.json settled: a 2xx
\* answer sets prioritiesConfig; a 404 or a failed fetch leaves it null.
PrioritiesResponse ==
    /\ configPc = "loading"
    /\ configPc' = "settled"
    /\ \/ \E config \in PrioritiesConfigs : prioritiesConfig' = <<config>>
       \/ UNCHANGED prioritiesConfig
    /\ UNCHANGED <<card, authVars, analyzerVars, analysisVars, batchVars>>

\* createRepoCard for a result with findings: it sorts them for display.
CreateRepoCard ==
    /\ \E findings \in FindingLists :
        /\ Len(findings) > 0
        /\ LET call == sortFindings(findings, prioritiesConfig)
           IN  card' = [created |-> TRUE, passed |-> findings,
                        config |-> prioritiesConfig,
                        findings |-> call.findings,
                        sortedFindings |-> call.returns]
    /\ UNCHANGED <<prioritiesConfig, configPc, authVars, analyzerVars,
                   analysisVars, batchVars>>

(***************************************************************************)
(* Specifications                                                          *)
(***************************************************************************)
IdleAuth ==
    /\ CONFIG = [GITHUB_OAUTH_CLIENT_ID |-> "", GITHUB_OAUTH_PROXY |-> "",
                 GITHUB_TOKEN |-> ""]
    /\ sessionStorage = [k \in {storageKey, stateKey} |-> NULL]
    /\ location = [page |-> "app", code |-> NULL, state |-> NULL]
    /\ cbPc = "idle"
    /\ uiPc = "pending"
    /\ authView = "loading"
    /\ cb = NoCallback
    /\ lastEvent = "load"
    /\ alertText = NULL

IdleAnalyzer ==
    /\ orgGithubCache = EmptyCache
    /\ orgProbes = NoProbes
    /\ pending = NoPending
    /\ returned = NoReturn

IdleAnalysis ==
    /\ anPc = "idle"
    /\ an = NoAnalysis
    /\ result = NewResult("", "")

IdleCards ==
    /\ prioritiesConfig = <<>>
    /\ configPc = "loading"
    /\ card = NoCard

IdlePage ==
    /\ batchPc = "idle"
    /\ batch = NoBatch
    /\ ui = NoUi
    /\ allResults = <<>>
    /\ analysisStats = [succeeded |-> 0, failed |-> 0, total |-> 0]
    /\ analysisCache = NoAnalysisCache
    /\ IdleCards

\* The page as first loaded in a new tab, for every deployment configuration.
InitAuth ==
    /\ CONFIG \in Configs
    /\ sessionStorage = [k \in {storageKey, stateKey} |-> NULL]
    /\ location = [page |-> "app", code |-> NULL, state |-> NULL]
    /\ cbPc = "idle"
    /\ uiPc = "pending"
    /\ authView = "loading"
    /\ cb = NoCallback
    /\ lastEvent = "load"
    /\ alertText = NULL
    /\ IdleAnalyzer
    /\ IdleAnalysis
    /\ IdlePage

NextAuth ==
    \/ PageLoad \/ Login \/ ProxyResponse \/ InitAuthUI \/ UserInfoResponse
    \/ Logout

SpecAuth == InitAuth /\ [][NextAuth]_vars

\* A new analyzer whose org probes are called directly, in any sequence.
InitCache == IdleAuth /\ IdleAnalyzer /\ IdleAnalysis /\ IdlePage

NextCache == CallHasOrgGithubRepo \/ CallCheckOrgGithubFile \/ ProbeSettles

SpecCache == InitCache /\ [][NextCache]_vars

\* What earlier analyses of an analyzer can have left in its cache for the
\* first owner: nothing, the answer of the repository probe, or that answer
\* and the answer of one file probe.
EarlierProbes ==
    LET owner == "owner1"
        repo == <<RepoCacheKey(owner), RepoProbeUrl(owner)>>
    IN  {<<>>}
        \cup {<< <<repo[1], repo[2], found>> >> : found \in BOOLEAN}
        \cup {<< <<repo[1], repo[2], TRUE>>,
                 <<FileCacheKey(owner, f), FileProbeUrl(owner, f), found>> >> :
                    f \in ProbeFiles, found \in BOOLEAN}

InitAnalyze ==
    /\ IdleAuth
    /\ IdleAnalysis
    /\ IdlePage
    /\ pending = NoPending
    /\ returned = NoReturn
    /\ \E earlier \in EarlierProbes :
        /\ orgProbes = [url \in {earlier[i][2] : i \in 1..Len(earlier)} |-> 1]
        /\ orgGithubCache =
              [k \in {earlier[i][1] : i \in 1..Len(earlier)} |->
                  \E i \in 1..Len(earlier) :
                      earlier[i][1] = k /\ earlier[i][3]]

NextAnalyze ==
    \/ StartAnalysis \/ MetadataResponse \/ HasOrgResponse \/ TreeResponse
    \/ FileProbeResponse

SpecAnalyze == InitAnalyze /\ [][NextAnalyze]_vars

\* Trees that leave work to every check, to some, or to none.
CheckTrees ==
    {{}, {"README.md", "LICENSE"}, {".github/workflows/ci.yml", "package.json"},
     GovernanceSet \cup OtherPaths}

CheckTreeResponse == TreeResponseFrom(CheckTrees)

\* Analyses of these trees by a new analyzer.
InitChecks ==
    /\ IdleAuth
    /\ IdleAnalyzer
    /\ IdleAnalysis
    /\ IdlePage

NextChecks ==
    \/ StartAnalysis \/ MetadataResponse \/ HasOrgResponse
    \/ CheckTreeResponse \/ FileProbeResponse

SpecChecks == InitChecks /\ [][NextChecks]_vars
\* File trees for the classification rules: one choice from each group of
\* paths, so that every rule matches alone and together with later ones.
ClassifyGroups ==
    << {{}, {"package.json"}, {"index.html"}},
       {{}, {"static/site.css"}},
       {{}, {"cli/run.sh"}},
       {{}, {"setup.py"}, {"pyproject.toml"}, {"Cargo.toml"}},
       {{}, {"pkg/__main__.py"}, {"pkg/__main__.pyi"}},
       {{}, {"README.md"},
        {"README.md", "CHANGES.rst", "docs/a.md", "docs/b.md", "docs/c.md",
         "docs/d.rst", "docs/e.md"}},
       {{}, {"AGENTS.md"}, {".github/workflows/ci.yml"}},
       {{}, {"a.py", "b.js", "c.go"}, {"a.py", "b.js", "c.go", "d.rs"},
        {"a.py", "b.js", "c.go", "d.rs", "e.py"}} >>

RECURSIVE TreesOfGroups(_)
TreesOfGroups(n) ==
    IF n = 0 THEN {{}}
    ELSE {t \cup g : t \in TreesOfGroups(n - 1), g \in ClassifyGroups[n]}

ClassifyTrees == TreesOfGroups(Len(ClassifyGroups))

ClassifyTreeResponse == TreeResponseFrom(ClassifyTrees)

\* Analyses of the classification trees by an analyzer that already knows
\* the owners to have no .github repository.
InitClassify ==
    /\ IdleAuth
    /\ IdleAnalysis
    /\ IdlePage
    /\ pending = NoPending
    /\ returned = NoReturn
    /\ orgProbes = NoProbes
    /\ orgGithubCache = [k \in {RepoCacheKey(o) : o \in AnalysisOwners} |-> FALSE]

NextClassify == StartAnalysis \/ MetadataResponse \/ ClassifyTreeResponse

SpecClassify == InitClassify /\ [][NextClassify]_vars

\* The page loading priorities.json and drawing repository cards.
InitSort == IdleAuth /\ IdleAnalyzer /\ IdleAnalysis /\ IdlePage

NextSort == PrioritiesResponse \/ CreateRepoCard

SpecSort == InitSort /\ [][NextSort]_vars

\* A result as an earlier run can have cached it.
CachedResult ==
    FinishChecks(
        [NewResult("owner1", "repo1") EXCEPT !.classification = "docs"],
        {"README.md"},
        CHOOSE repoData \in RunRepoDatas : TRUE)

\* The stats of an earlier run of the account: one repository analyzed,
\* one failed.
EarlierStats == [succeeded |-> 1, failed |-> 1, total |-> 2]

\* The analysis cache as that run's analysisCache.set left it.
EarlierRun ==
    AnalysisCacheSet(NoAnalysisCache, "owner1", FALSE, <<CachedResult>>,
                     EarlierStats)

\* What earlier runs can have left in the analysis cache: nothing, or an
\* entry for the account, written with or without stats, stale or not.
EarlierRuns ==
    {NoAnalysisCache}
    \cup {[EarlierRun EXCEPT
                !.entries[generateKey("owner1", FALSE)].analysisStats = stats,
                !.now = EarlierRun.now + age] :
            stats \in {<<>>, <<EarlierStats>>}, age \in {ttl, ttl + 1}}

\* The page after load, with or without a persisted OAuth token.
InitBatch ==
    /\ CONFIG = [GITHUB_OAUTH_CLIENT_ID |-> "", GITHUB_OAUTH_PROXY |-> "",
                 GITHUB_TOKEN |-> ""]
    /\ \E token \in {NULL, "tok1"} :
        sessionStorage = [k \in {storageKey, stateKey} |->
                            IF k = storageKey THEN token ELSE NULL]
    /\ location = [page |-> "app", code |-> NULL, state |-> NULL]
    /\ cbPc = "idle"
    /\ uiPc = "done"
    /\ authView = "loggedOut"
    /\ cb = NoCallback
    /\ lastEvent = "load"
    /\ alertText = NULL
    /\ IdleAnalyzer
    /\ IdleAnalysis
    /\ batchPc = "idle"
    /\ batch = NoBatch
    /\ ui = NoUi
    /\ allResults = <<>>
    /\ analysisStats = [succeeded |-> 0, failed |-> 0, total |-> 0]
    /\ analysisCache \in EarlierRuns
    /\ IdleCards

NextBatch ==
    \/ HandleAnalyze \/ AccountResponse \/ ListingResponse
    \/ RunMetadataResponse \/ HasOrgResponse \/ RunTreeResponse
    \/ FileProbeResponse \/ RepositoryAnalyzed \/ SingleAnalyzed

SpecBatch == InitBatch /\ [][NextBatch]_vars

\* Listing pages of an account of one repository or none, a fork or not.
OneRepoPages ==
    {[n |-> 0, forks |-> {}], [n |-> 1, forks |-> {}], [n |-> 1, forks |-> {1}]}

OneRepoListingResponse == ListingResponseFrom(OneRepoPages)

\* Several submits on one page, from its load on.
InitRuns ==
    /\ IdleAuth
    /\ IdleAnalyzer
    /\ IdleAnalysis
    /\ IdlePage

NextRuns ==
    \/ HandleAnalyze \/ HandleAnalyzeAgain
    \/ AccountResponse \/ OneRepoListingResponse
    \/ RunMetadataResponse \/ HasOrgResponse \/ RunTreeResponse
    \/ FileProbeResponse \/ RepositoryAnalyzed \/ SingleAnalyzed

SpecRuns == InitRuns /\ [][NextRuns]_vars

\* The account of Targets as a user may spell it, and a repository of it.
SpelledTargets == {"owner1", " Owner1 ", "OWNER1", "Owner1/repo1"}

\* A submit with the target spelled one of these ways.
HandleAnalyzeSpelled == HandleAnalyzeWhen({"idle"}, SpelledTargets)

\* A result as a run with the fork filter on can have cached it.
CachedNonFork ==
    FinishChecks(
        [NewResult("owner1", "repo2") EXCEPT !.classification = "library"],
        {"README.md", "LICENSE"},
        CHOOSE repoData \in RunRepoDatas : TRUE)

\* The cache after earlier runs for the account with the fork filter off,
\* on, or both, read at once or when the entries are past the TTL.
KeyedCaches ==
    LET off == AnalysisCacheSet(NoAnalysisCache, "owner1", FALSE,
                    <<CachedResult, CachedNonFork>>,
                    [succeeded |-> 2, failed |-> 0, total |-> 2])
        on(cache) == AnalysisCacheSet(cache, "owner1", TRUE, <<CachedNonFork>>,
                        [succeeded |-> 1, failed |-> 0, total |-> 1])
    IN  {[cache EXCEPT !.now = @ + age] :
            cache \in {off, on(NoAnalysisCache), on(off)}, age \in {0, ttl + 1}}

\* One submit on a page whose cache holds entries for the account.
InitKeys ==
    /\ IdleAuth
    /\ IdleAnalyzer
    /\ IdleAnalysis
    /\ batchPc = "idle"
    /\ batch = NoBatch
    /\ ui = NoUi
    /\ allResults = <<>>
    /\ analysisStats = [succeeded |-> 0, failed |-> 0, total |-> 0]
    /\ analysisCache \in KeyedCaches
    /\ IdleCards

NextKeys ==
    \/ HandleAnalyzeSpelled
    \/ AccountResponse \/ OneRepoListingResponse
    \/ RunMetadataResponse \/ HasOrgResponse \/ RunTreeResponse
    \/ FileProbeResponse \/ RepositoryAnalyzed \/ SingleAnalyzed

SpecKeys == InitKeys /\ [][NextKeys]_vars

\* The trees of a run whose repositories keep none or one of the
\* governance files.
BareTrees == {{}, {"README.md", "LICENSE"}}

BareTreeResponse ==
    /\ batchPc \in {"analyzing", "single"}
    /\ TreeResponseFrom(BareTrees)

\* A run over repositories that leave their governance files to the owner's
\* .github repository.
InitOrgProbes ==
    /\ IdleAuth
    /\ IdleAnalyzer
    /\ IdleAnalysis
    /\ IdlePage

NextOrgProbes ==
    \/ HandleAnalyze \/ AccountResponse \/ ListingResponse
    \/ RunMetadataResponse \/ HasOrgResponse \/ BareTreeResponse
    \/ FileProbeResponse \/ RepositoryAnalyzed \/ SingleAnalyzed

SpecOrgProbes == InitOrgProbes /\ [][NextOrgProbes]_vars

\* Listing pages as the API answers them for accounts of any size: empty,
\* short or full, of forks only or without any.
FullPages ==
    {[n |-> n, forks |-> forks] :
        n \in {0, 25, perPage - 1, perPage}, forks \in {{}, 1..perPage}}

AccountListingResponse == ListingResponseFrom(FullPages)

\* Runs of handleAnalyze up to the end of the listing of an account.
\* The page after load as InitBatch has it, for a deployment without
\* or with a configured GITHUB_TOKEN.
StaticTokens == {"", "cfgtok"}

InitListing ==
    /\ \E static \in StaticTokens :
        CONFIG = [GITHUB_OAUTH_CLIENT_ID |-> "", GITHUB_OAUTH_PROXY |-> "",
                  GITHUB_TOKEN |-> static]
    /\ \E token \in {NULL, "tok1"} :
        sessionStorage = [k \in {storageKey, stateKey} |->
                            IF k = storageKey THEN token ELSE NULL]
    /\ location = [page |-> "app", code |-> NULL, state |-> NULL]
    /\ cbPc = "idle"
    /\ uiPc = "done"
    /\ authView = "loggedOut"
    /\ cb = NoCallback
    /\ lastEvent = "load"
    /\ alertText = NULL
    /\ IdleAnalyzer
    /\ IdleAnalysis
    /\ batchPc = "idle"
    /\ batch = NoBatch
    /\ ui = NoUi
    /\ allResults = <<>>
    /\ analysisStats = [succeeded |-> 0, failed |-> 0, total |-> 0]
    /\ analysisCache \in EarlierRuns
    /\ IdleCards

NextListing == HandleAnalyze \/ AccountResponse \/ AccountListingResponse

SpecListing == InitListing /\ [][NextListing]_vars

(***************************************************************************)
(* Properties of the OAuth session                                         *)
(***************************************************************************)
\* The session state of spec section 4.7, read off the persisted values.
SessionState ==
    IF isAuthenticated(sessionStorage) THEN "LoggedIn"
    ELSE IF sessionStorage[stateKey] # NULL THEN "PendingCallback"
    ELSE "LoggedOut"

ExchangeFailures == {"no_proxy", "proxy_throw", "proxy_not_ok",
                     "proxy_bad_json", "proxy_no_token"}

\* C1: a callback whose returned state differs from the persisted state (or
\* finds none persisted) never posts the code to the proxy, never waits for
\* a proxy answer and never stores a token: it ends as a mismatch.
C1_MismatchNeverExchanges ==
    (cb.ran /\ cb.state # cb.storedState) =>
        /\ ~cb.posted
        /\ cbPc # "awaitProxy"
        /\ cb.outcome = "mismatch"

C1_Witness ==
    /\ cb.ran /\ cb.finished
    /\ cb.storedState # NULL
    /\ cb.state # cb.storedState

\* C2: once handleOAuthCallback has finished, whatever its outcome, no CSRF
\* state is persisted.
C2_NoStateAfterCallback ==
    cb.finished => sessionStorage[stateKey] = NULL

\* What the code does instead: the state is cleared on every outcome but a
\* stored token.
C2_StateClearedUnlessStored ==
    (cb.finished /\ cb.outcome # "stored") => sessionStorage[stateKey] = NULL

FailedExchange ==
    /\ cb.finished
    /\ cb.state = cb.storedState
    /\ cb.outcome \in ExchangeFailures

\* C3 as stated: after a matching callback whose exchange failed the state
\* is cleared, no token was stored, the user was told, and the session is
\* LoggedOut.
C3_FailedExchangeEndsLoggedOut ==
    FailedExchange =>
        /\ sessionStorage[stateKey] = NULL
        /\ getToken(sessionStorage) \in {cb.tokenBefore, NULL}
        /\ cb.alerted
        /\ cbPc = "idle"
        /\ SessionState = "LoggedOut"

\* C3 amended: the same, but the session is LoggedOut only when no token was
\* persisted when the callback began; a token persisted earlier is kept.
C3_FailedExchangeKeepsSession ==
    FailedExchange =>
        /\ sessionStorage[stateKey] = NULL
        /\ getToken(sessionStorage) \in {cb.tokenBefore, NULL}
        /\ cb.alerted
        /\ cbPc = "idle"
        /\ (cb.tokenBefore = NULL => SessionState = "LoggedOut")

C3_Witness ==
    /\ FailedExchange
    /\ cb.outcome = "proxy_not_ok"
    /\ cb.tokenBefore = NULL
    /\ SessionState = "LoggedOut"

CallbackFailureEvents ==
    {"callback_mismatch"} \cup {"callback_" \o o : o \in ExchangeFailures}

ListedTransitions ==
    {<<"LoggedOut", "login", "PendingCallback">>,
     <<"PendingCallback", "callback_valid", "LoggedIn">>,
     <<"LoggedIn", "logout", "LoggedOut">>}
    \cup {<<"PendingCallback", e, "LoggedOut">> : e \in CallbackFailureEvents}

\* A token is newly persisted only by a callback that matched the persisted
\* state and whose exchange returned an access token.
TokenOnlyFromValidCallback ==
    (getToken(sessionStorage)' # getToken(sessionStorage)
     /\ Truthy(getToken(sessionStorage)')) =>
        /\ lastEvent' = "callback_valid"
        /\ cb'.posted /\ cb'.state = cb'.storedState
        /\ cb'.outcome = "stored"

\* C4 as stated: the session state changes only along the listed
\* transitions, and a token is persisted only by a valid callback.
C4_OnlyListedTransitions ==
    [][/\ SessionState' # SessionState =>
            <<SessionState, lastEvent', SessionState'>> \in ListedTransitions
       /\ TokenOnlyFromValidCallback]_vars

\* The transitions the code adds: a 401 answer to getUserInfo clears the
\* token, and when that happens while a matching callback awaits the proxy,
\* the callback's token is stored from LoggedOut.
UnlistedTransitions ==
    {<<"LoggedIn", "userinfo_401", "LoggedOut">>,
     <<"LoggedOut", "callback_valid", "LoggedIn">>}

\* C4 amended: the session state changes only along the listed transitions
\* and the two above, and a token is persisted only by a valid callback.
C4_ListedTransitionsAnd401 ==
    [][/\ SessionState' # SessionState =>
            <<SessionState, lastEvent', SessionState'>> \in
                ListedTransitions \cup UnlistedTransitions
       /\ TokenOnlyFromValidCallback]_vars

C4_Witness ==
    /\ lastEvent = "logout"
    /\ cb.outcome = "stored"
    /\ SessionState = "LoggedOut"

(***************************************************************************)
(* Properties of the organization-inheritance cache                        *)
(***************************************************************************)
\* C7: within one analyzer, whatever sequence of hasOrgGithubRepo and
\* checkOrgGithubFile calls is made, every probe URL is fetched at most once,
\* a cache key that is set keeps its value for ever, and a call for a key
\* that is set returns the cached value (false included) without a fetch.
C7_ProbesAreMemoized ==
    /\ [](\A url \in DOMAIN orgProbes : orgProbes[url] <= 1)
    /\ [][\A k \in DOMAIN orgGithubCache :
            /\ k \in DOMAIN orgGithubCache'
            /\ orgGithubCache'[k] = orgGithubCache[k]]_vars
    /\ [][(returned' # returned /\ returned'.key \in DOMAIN orgGithubCache)
            => /\ returned'.value = orgGithubCache[returned'.key]
               /\ orgProbes' = orgProbes]_vars

\* A file probe first answered false is asked again and answers from the
\* cache.
C7_Witness ==
    /\ returned.fn = "checkOrgGithubFile"
    /\ returned.cached
    /\ ~returned.value
    /\ ProbeCount(orgProbes, FileProbeUrl("owner1", "LICENSE")) = 1
    /\ returned.key = FileCacheKey("owner1", "LICENSE")

(***************************************************************************)
(* Properties of checkGovernanceFiles                                      *)
(***************************************************************************)
PresentInRepo(X) == \E v \in DocumentedVariants[X] : v \in an.files

HasMissing(X) ==
    \E i \in 1..Len(result.findings) :
        result.findings[i].title = "Missing " \o X

\* The limitation entries that name X and the owner's .github repository.
InheritedEntries(X) ==
    {i \in 1..Len(result.limitations) :
        /\ includes(result.limitations[i], X)
        /\ includes(result.limitations[i], an.owner \o "/.github")}

ProbedDuringAnalysis(X) ==
    ProbeCount(orgProbes, FileProbeUrl(an.owner, X))
        > ProbeCount(an.probesBefore, FileProbeUrl(an.owner, X))

GovernanceStarted == anPc \in {"govProbe", "done"}

\* C8: a governance file the tree holds under a documented variant gets no
\* "Missing X" finding, no inheritance limitation and no org probe, whatever
\* the cache says about the owner's .github repository.
C8_PresentFileIsNeverReported ==
    GovernanceStarted =>
        /\ GovernanceNames = GovernanceSet
        /\ \A X \in GovernanceSet :
            PresentInRepo(X) =>
                /\ ~HasMissing(X)
                /\ InheritedEntries(X) = {}
                /\ ~ProbedDuringAnalysis(X)

\* The tree holds the license under its lowercase name while the cache says
\* the owner's .github repository has a LICENSE.
C8_Witness ==
    /\ anPc = "done"
    /\ an.files = {"license"}
    /\ an.hasOrgGithub
    /\ CacheHas(orgGithubCache, FileCacheKey(an.owner, "LICENSE"))
    /\ orgGithubCache[FileCacheKey(an.owner, "LICENSE")]

OrgRepoResolved(found) ==
    /\ CacheHas(orgGithubCache, RepoCacheKey(an.owner))
    /\ orgGithubCache[RepoCacheKey(an.owner)] = found

\* C9: when the owner's .github repository probe resolved false, every
\* governance file absent from the tree has its "Missing X" finding, no file
\* of the owner's .github repository was ever probed and no limitation
\* claims an inheritance.
C9_NoOrgRepoNoInheritance ==
    (anPc = "done" /\ OrgRepoResolved(FALSE)) =>
        \A X \in GovernanceSet :
            /\ ProbeCount(orgProbes, FileProbeUrl(an.owner, X)) = 0
            /\ InheritedEntries(X) = {}
            /\ ~PresentInRepo(X) => HasMissing(X)

\* An empty tree analysed for an owner without a .github repository.
C9_Witness ==
    /\ anPc = "done"
    /\ OrgRepoResolved(FALSE)
    /\ an.files = {}
    /\ \A X \in GovernanceSet : HasMissing(X)

OrgFileFound(X) ==
    /\ OrgRepoResolved(TRUE)
    /\ CacheHas(orgGithubCache, FileCacheKey(an.owner, X))
    /\ orgGithubCache[FileCacheKey(an.owner, X)]

\* C10: for a governance file absent from the tree that the probe of the
\* owner's .github repository found, the result has no "Missing X" finding
\* and exactly one limitation naming X and that repository; no result ever
\* has both a missing finding and an inheritance limitation for one file.
C10_InheritedFileIsALimitation ==
    /\ anPc = "done" =>
        \A X \in GovernanceSet :
            (~PresentInRepo(X) /\ OrgFileFound(X)) =>
                /\ ~HasMissing(X)
                /\ Cardinality(InheritedEntries(X)) = 1
    /\ GovernanceStarted =>
        \A X \in GovernanceSet : ~(HasMissing(X) /\ InheritedEntries(X) # {})

\* The tree lacks a code of conduct, the owner's .github repository has one.
C10_Witness ==
    /\ anPc = "done"
    /\ ~PresentInRepo("CODE_OF_CONDUCT.md")
    /\ OrgFileFound("CODE_OF_CONDUCT.md")
    /\ HasMissing("LICENSE")

(***************************************************************************)
(* Properties of analyzeBatch                                              *)
(***************************************************************************)
\* The names of the first n repositories of the batch, in order.
FirstRepos(n) == [k \in 1..n |-> batch.repos[k].full_name]

\* analyzeBatch has run its loop and the run is over.
BatchEnded == batchPc = "finished" /\ batch.i > 0

\* C5: the loop attempts every repository of the batch in order, whatever
\* the analyses before it did: while it runs, repositories 1..i have been
\* attempted and i - 1 of them are settled; when it is over all N have been
\* attempted, the batch yields N minus the number of failures results, and
\* with exactly one failure it yields N - 1 results and failed = 1.
C5_FailureNeverStopsTheLoop ==
    /\ batchPc = "analyzing" =>
        /\ batch.attempted = FirstRepos(batch.i)
        /\ Len(batch.batchResults) + batch.failedCount = batch.i - 1
    /\ BatchEnded =>
        /\ batch.attempted = FirstRepos(Len(batch.repos))
        /\ Len(batch.batchResults) + batch.failedCount = Len(batch.repos)
        /\ Len(allResults) = Len(batch.repos) - batch.failedCount
        /\ analysisStats.failed = batch.failedCount
        /\ analysisStats.total = Len(batch.repos)
        /\ \A k \in 1..Len(allResults) :
            \E j \in 1..Len(batch.repos) :
                allResults[k].repository = batch.repos[j].full_name
        /\ batch.failedCount = 1 =>
            /\ Len(allResults) = Len(batch.repos) - 1
            /\ analysisStats.succeeded = Len(batch.repos) - 1
            /\ analysisStats.failed = 1

\* The analysis of the first of two repositories threw, the second one was
\* analysed all the same.
C5_Witness ==
    /\ BatchEnded
    /\ Len(batch.repos) = 2
    /\ batch.failedCount = 1
    /\ Len(allResults) = 1
    /\ allResults[1].repository = batch.repos[2].full_name

\* C6: when analyzeBatch ends after its loop, either every analysis failed,
\* and then the error section shows and the results are hidden and empty,
\* or the results section shows the successful results, the stats carry the
\* failure count and, if there were failures, the info section shows it.
C6_AllFailedOrPartialResults ==
    BatchEnded =>
        IF Len(batch.batchResults) = 0
        THEN /\ ui.error
             /\ ~ui.results
             /\ allResults = <<>>
             /\ ui.displayed = <<>>
        ELSE /\ ui.results
             /\ ~ui.error
             /\ ui.displayed = batch.batchResults
             /\ allResults = batch.batchResults
             /\ analysisStats.failed = batch.failedCount
             /\ batch.failedCount > 0 =>
                 /\ ui.info
                 /\ includes(ui.infoMessage,
                             "but " \o ToString(batch.failedCount) \o " failed")

\* One analysis of two succeeded: its result shows, with the warning.
C6_Witness ==
    /\ BatchEnded
    /\ Len(batch.batchResults) = 1
    /\ batch.failedCount = 1
    /\ ui.results
    /\ ui.info

(***************************************************************************)
(* Maturity level                                                          *)
(***************************************************************************)
\* The findings of the list that carry severity s, in order.
WithSeverity(findings, s) == SelectSeq(findings, LAMBDA f : f.severity = s)

\* The documented level of a finding list.
DocumentedMaturity(findings) ==
    CASE Len(WithSeverity(findings, "critical")) >= 1 -> "low"
      [] /\ Len(WithSeverity(findings, "critical")) = 0
         /\ Len(WithSeverity(findings, "important")) >= 3 -> "medium"
      [] OTHER -> "high"

\* C11: the maturity_level of every returned analysis result is determined
\* by its final finding list alone: low with at least one critical finding,
\* otherwise medium with more than two important findings, otherwise high.
C11_MaturityFromFinalFindings ==
    anPc = "done" =>
        result.maturity_level = DocumentedMaturity(result.findings)

\* An analysis returned a result without critical findings and with exactly
\* two important ones, the largest number that still rates high.
C11_Witness ==
    /\ anPc = "done"
    /\ Len(WithSeverity(result.findings, "critical")) = 0
    /\ Len(WithSeverity(result.findings, "important")) = 2
    /\ result.maturity_level = "high"

(***************************************************************************)
(* Repository classification                                               *)
(***************************************************************************)
\* The classification rules in their documented order.
RuleOrder == <<"webapp", "cli", "library", "docs", "config", "mixed">>

EndsInMainModule(path) == endsWith(path, "__main__.py")

ContainsMainModule(path) == includes(path, "__main__.py")

\* Whether a file tree matches a rule, with the given reading of "a
\* __main__.py path".
RuleMatches(rule, files, IsMainModule(_)) ==
    LET docs == {f \in files : \E x \in {".md", ".rst"} : endsWith(f, x)}
        code == {f \in files :
                    \E x \in {".py", ".js", ".go", ".rs"} : endsWith(f, x)}
        pythonManifest == {"setup.py", "pyproject.toml"} \cap files # {}
    IN  CASE rule = "webapp" ->
                /\ {"package.json", "index.html"} \cap files # {}
                /\ \E f \in files, d \in {"public/", "static/", "templates/"} :
                        startsWith(f, d)
          [] rule = "cli" ->
                \/ \E f \in files, d \in {"cmd/", "cli/"} : startsWith(f, d)
                \/ pythonManifest /\ \E f \in files : IsMainModule(f)
          [] rule = "library" ->
                {"setup.py", "pyproject.toml", "package.json", "Cargo.toml"}
                    \cap files # {}
          [] rule = "docs" -> 100 * Cardinality(docs) >= 70 * Cardinality(files)
          [] rule = "config" ->
                /\ \/ "AGENTS.md" \in files
                   \/ \E f \in files : startsWith(f, ".github/workflows")
                /\ Cardinality(code) < 5
          [] rule = "mixed" -> TRUE

\* The tag of the first rule of RuleOrder that the tree matches.
FirstMatchingRule(files, IsMainModule(_)) ==
    LET i == CHOOSE k \in DOMAIN RuleOrder :
                /\ RuleMatches(RuleOrder[k], files, IsMainModule)
                /\ \A j \in 1..(k - 1) :
                        ~RuleMatches(RuleOrder[j], files, IsMainModule)
    IN  RuleOrder[i]

\* C12 as stated: every analyzed tree is tagged with the first matching
\* rule of webapp, cli, library, docs, config, mixed, where the second CLI
\* rule asks for a Python manifest and a path that ends in __main__.py.
C12_FirstMatchingRuleSuffix ==
    anPc = "done" =>
        result.classification = FirstMatchingRule(an.files, EndsInMainModule)

\* C12 as amended: every analyzed tree is tagged with the first matching
\* rule of webapp, cli, library, docs, config, mixed, where the second CLI
\* rule asks for a Python manifest and a path that contains __main__.py.
C12_FirstMatchingRuleContains ==
    anPc = "done" =>
        result.classification = FirstMatchingRule(an.files, ContainsMainModule)

\* A tree with a Python manifest and a path that contains __main__.py
\* without ending in it, and no earlier rule matching, was tagged cli.
C12_Witness ==
    /\ anPc = "done"
    /\ "setup.py" \in an.files
    /\ \E f \in an.files : ContainsMainModule(f)
    /\ ~\E f \in an.files : EndsInMainModule(f)
    /\ ~RuleMatches("webapp", an.files, ContainsMainModule)
    /\ ~\E f \in an.files : startsWith(f, "cli/")
    /\ result.classification = "cli"

(***************************************************************************)
(* Finding order                                                           *)
(***************************************************************************)
\* The documented severity ranks.
SeverityRank(f) ==
    CHOOSE r \in 1..4 :
        <<"critical", "important", "recommended", "optional">>[r] = f.severity

\* The entries the priorities list of a card's configuration has for a
\* finding's title.
EntriesFor(f) ==
    {e \in Range(card.config[1].priorities) : e.title = f.title}

HasEntry(f) == EntriesFor(f) # {}

PriorityNumber(f) == (CHOOSE e \in EntriesFor(f) : TRUE).priority

\* The sort strategy a card was drawn under: "none" without configuration.
CardStrategy ==
    IF card.config = <<>> THEN "none"
    ELSE card.config[1].options.sort_strategy

\* Positions i before j of the sorted findings.
SortedPairs ==
    {p \in (DOMAIN card.sortedFindings) \X (DOMAIN card.sortedFindings) :
        p[1] < p[2]}

\* The order by priorities with severity fallback.
PriorityOrdered ==
    \A p \in SortedPairs :
        LET a == card.sortedFindings[p[1]]
            b == card.sortedFindings[p[2]]
        IN  /\ HasEntry(a) /\ HasEntry(b) =>
                    PriorityNumber(a) <= PriorityNumber(b)
            /\ HasEntry(b) => HasEntry(a)
            /\ ~HasEntry(a) /\ ~HasEntry(b) =>
                    SeverityRank(a) <= SeverityRank(b)

\* The order by severity alone.
SeverityOrdered ==
    \A p \in SortedPairs :
        SeverityRank(card.sortedFindings[p[1]])
            <= SeverityRank(card.sortedFindings[p[2]])

\* C13: under sort_strategy = priority, findings with a priority entry come
\* in ascending priority number, each of them precedes every finding
\* without an entry, and the findings without an entry are in severity
\* order among themselves.
C13_PriorityThenSeverity ==
    card.created /\ CardStrategy = "priority" => PriorityOrdered

\* A card sorted by priority put an optional finding with priority 1 first,
\* a finding with priority 5 second and a critical finding without an entry
\* last.
C13_Witness ==
    /\ card.created
    /\ CardStrategy = "priority"
    /\ Len(card.sortedFindings) = 3
    /\ card.sortedFindings[1].severity = "optional"
    /\ HasEntry(card.sortedFindings[1])
    /\ PriorityNumber(card.sortedFindings[1]) = 1
    /\ HasEntry(card.sortedFindings[2])
    /\ PriorityNumber(card.sortedFindings[2]) = 5
    /\ ~HasEntry(card.sortedFindings[3])
    /\ card.sortedFindings[3].severity = "critical"
    /\ card.passed[1] = card.sortedFindings[3]

\* How often a finding occurs in a list.
Occurrences(list, f) == Cardinality({i \in DOMAIN list : list[i] = f})

\* The position of a finding of the card in the list that was passed.
PassedAt(f) == CHOOSE i \in DOMAIN card.passed : card.passed[i] = f

\* Two findings that compare equal: the same priority number, or the same
\* severity when neither has a priority entry or the sort is by severity.
\* A strategy other than "priority" sorts by severity.
ComparesEqual(a, b) ==
    IF CardStrategy = "priority"
    THEN \/ HasEntry(a) /\ HasEntry(b) /\ PriorityNumber(a) = PriorityNumber(b)
         \/ ~HasEntry(a) /\ ~HasEntry(b) /\ a.severity = b.severity
    ELSE a.severity = b.severity

\* C14: sortFindings returns a permutation of the list it was handed in
\* which findings that compare equal keep their input order, and leaves
\* the list it was handed as it was.
C14_StablePermutation ==
    card.created =>
        /\ Len(card.sortedFindings) = Len(card.passed)
        /\ \A f \in CardFindings :
                Occurrences(card.sortedFindings, f) = Occurrences(card.passed, f)
        /\ \A p \in SortedPairs :
                LET a == card.sortedFindings[p[1]]
                    b == card.sortedFindings[p[2]]
                IN  ComparesEqual(a, b) => PassedAt(a) < PassedAt(b)
        /\ card.findings = card.passed

\* A card sorted by priority whose list had a finding between two findings
\* of equal priority number that sorts before both: the two follow it in
\* their input order.
C14_Witness ==
    /\ card.created
    /\ CardStrategy = "priority"
    /\ Len(card.passed) = 3
    /\ HasEntry(card.passed[1]) /\ HasEntry(card.passed[3])
    /\ PriorityNumber(card.passed[1]) = PriorityNumber(card.passed[3])
    /\ SeverityRank(card.passed[1]) > SeverityRank(card.passed[3])
    /\ card.sortedFindings
            = <<card.passed[2], card.passed[1], card.passed[3]>>

\* C15: without a priorities configuration, or with sort_strategy =
\* severity, the findings come in the order critical, important,
\* recommended, optional, whatever the priorities list says.
C15_SeverityOrderWithoutPriorities ==
    card.created /\ CardStrategy \in {"none", "severity"} => SeverityOrdered

\* A card sorted under sort_strategy = severity put a critical finding
\* before an optional one although the priorities list ranks the optional
\* one first.
C15_Witness ==
    /\ card.created
    /\ CardStrategy = "severity"
    /\ \E p \in SortedPairs :
        LET a == card.sortedFindings[p[1]]
            b == card.sortedFindings[p[2]]
        IN  /\ a.severity = "critical" /\ b.severity = "optional"
            /\ HasEntry(a) /\ HasEntry(b)
            /\ PriorityNumber(b) < PriorityNumber(a)

\* C16: a loaded configuration whose options do not set sort_strategy
\* sorts as sort_strategy = priority does: by the priorities list with
\* severity fallback.
C16_StrategyDefaultsToPriority ==
    card.created /\ CardStrategy = undefined => PriorityOrdered

(***************************************************************************)
(* Account probe and repository listing                                    *)
(***************************************************************************)
\* The account probe of the run has settled.
AccountProbed == batch.accountAnswer # NULL

OrgsListing == "https://api.github.com/orgs/" \o batch.target \o "/repos"

UsersListing == "https://api.github.com/users/" \o batch.target \o "/repos"

\* C17: the listing endpoint is /orgs/{login}/repos only when the account
\* probe answered 2xx with type Organization; after a non-2xx answer or a
\* probe that threw, the endpoint is /users/{login}/repos and the first
\* listing page has been requested.
C17_OrgsEndpointOnlyForOrganization ==
    AccountProbed =>
        /\ batch.reposEndpoint \in {OrgsListing, UsersListing}
        /\ batch.reposEndpoint = OrgsListing
                <=> batch.accountAnswer = "Organization"
        /\ batch.accountAnswer \in {"not_ok", "throws"} =>
                /\ batch.reposEndpoint = UsersListing
                /\ Len(batch.pagesRequested) >= 1
                /\ batchPc # "account"

\* The account probe threw and the listing of /users/{login}/repos went on
\* to list 25 repositories, whose analysis began.
C17_Witness ==
    /\ batch.accountAnswer = "throws"
    /\ batch.reposEndpoint = UsersListing
    /\ batchPc = "analyzing"
    /\ Len(batch.allRepos) = 25

\* The account probe answered non-2xx and the first page is awaited.
C17_WitnessNotOk ==
    /\ batch.accountAnswer = "not_ok"
    /\ batchPc = "listing"
    /\ ~ui.error

\* C18: the pages requested are 1, 2, ... in this order, each once; a page
\* is requested only when all pages before it were answered in full; no
\* page is requested after one with fewer than 100 entries; the listed
\* repositories are all entries of the account in API order; and an
\* account of 125 repositories takes exactly 2 requests and gives 125
\* repositories to analyze.
C18_PagesInOrderUntilShortPage ==
    AccountProbed =>
        /\ \A k \in DOMAIN batch.pagesRequested : batch.pagesRequested[k] = k
        /\ Len(batch.pagesRequested) = (Len(batch.allRepos) \div 100) + 1
        /\ batchPc = "listing" => Len(batch.allRepos) % 100 = 0
        /\ \A k \in DOMAIN batch.allRepos :
                batch.allRepos[k].name = "repo" \o ToString(k)
        /\ (Len(batch.allRepos) = 125 /\ batchPc # "listing") =>
                /\ batch.pagesRequested = <<1, 2>>
                /\ ~batch.skipForks =>
                        /\ Len(batch.repos) = 125
                        /\ batchPc = "analyzing"

\* An organization of 125 repositories was listed in two pages and the
\* analysis of its 125 repositories began with the first of them.
C18_Witness ==
    /\ batch.accountAnswer = "Organization"
    /\ batch.reposEndpoint = OrgsListing
    /\ ~batch.skipForks
    /\ batch.pagesRequested = <<1, 2>>
    /\ Len(batch.allRepos) = 125
    /\ Len(batch.repos) = 125
    /\ batch.attempted = <<batch.repos[1].full_name>>
    /\ batchPc = "analyzing"

(***************************************************************************)
(* Fork filtering                                                          *)
(***************************************************************************)
\* The listing of the run succeeded and the fork filter was applied.
Filtered == batch.paginationState.userOrOrg # NULL

\* No analysis of the run was of a repository listed as a fork.
ForksNeverAnalyzed ==
    \A k \in DOMAIN batch.attempted :
        \A r \in Range(batch.allRepos) :
            r.full_name = batch.attempted[k] => ~r.fork

\* Every listed repository is a fork, and there is at least one.
AllForks ==
    /\ Len(batch.allRepos) > 0
    /\ \A r \in Range(batch.allRepos) : r.fork

\* C19: with skipForks set no fork is analyzed, and a listing of forks only
\* ends the run with an informational message showing and no error
\* showing.
C19_AllForksEndsWithInfo ==
    batch.skipForks =>
        /\ ForksNeverAnalyzed
        /\ (Filtered /\ AllForks) =>
                /\ batchPc = "finished"
                /\ ui.info
                /\ ~ui.error

\* The first half of C19 alone.
C19_ForksNeverAnalyzed == batch.skipForks => ForksNeverAnalyzed

(***************************************************************************)
(* Stats of cached results                                                 *)
(***************************************************************************)
\* handleAnalyze served the run from the cache.
ServedFromCache == batchPc = "finished" /\ ui.cacheStatus

\* The cache entry of the run's target.
ServedEntry ==
    analysisCache.entries[generateKey(batch.target, batch.skipForks)]

\* C20 as stated: the stats restored for a run served from the cache equal
\* the stats of the run that wrote the entry.
C20_RestoredStatsAreTheWritersStats ==
    ServedFromCache => analysisStats = ServedEntry.runStats

\* C20 as amended: the stats restored for a run served from the cache equal
\* the stats of the run that wrote the entry when the entry holds stats;
\* for an entry without stats they count every cached result as a success
\* and no failure.
C20_RestoredStatsAreTheStoredStats ==
    ServedFromCache =>
        IF ServedEntry.analysisStats # <<>>
        THEN analysisStats = ServedEntry.runStats
        ELSE analysisStats = [succeeded |-> Len(allResults), failed |-> 0,
                              total |-> Len(allResults)]

\* A run was served from an entry written by a run with one failure, and
\* the restored stats report that failure.
C20_Witness ==
    /\ ServedFromCache
    /\ ServedEntry.analysisStats # <<>>
    /\ ServedEntry.runStats.failed = 1
    /\ analysisStats.failed = 1
    /\ allResults = ServedEntry.results

(***************************************************************************)
(* Credentials                                                             *)
(***************************************************************************)
\* The credential a run is to use: the persisted OAuth token when there is
\* one, otherwise the configured token, otherwise none.
ChosenCredential ==
    CASE sessionStorage[storageKey] \notin {NULL, ""} ->
            sessionStorage[storageKey]
      [] OTHER -> CONFIG.GITHUB_TOKEN

\* The Authorization header of a request carrying ChosenCredential.
ChosenHeader ==
    IF ChosenCredential = "" THEN NULL ELSE "token " \o ChosenCredential

\* C21: getGitHubToken returns the persisted OAuth token whenever there is
\* one and the configured token only otherwise, and the request in flight
\* of a run, whether the account probe, a listing page or a repository
\* fetch, carries the credential chosen this way.
C21_OAuthTokenOverridesConfigured ==
    /\ getGitHubToken(sessionStorage, CONFIG) = ChosenCredential
    /\ batchPc \in {"account", "listing"} => batch.authorization = ChosenHeader
    /\ (batchPc \in {"analyzing", "single"} /\ anPc = "metadata") =>
            authorizationHeader(batch.analyzerToken) = ChosenHeader

\* With an OAuth token persisted and another token configured, the
\* metadata fetch of a listed repository carries the OAuth token.
C21_Witness ==
    /\ sessionStorage[storageKey] = "tok1"
    /\ CONFIG.GITHUB_TOKEN = "cfgtok"
    /\ batchPc = "analyzing"
    /\ anPc = "metadata"
    /\ Len(batch.pagesRequested) >= 1
    /\ batch.authorization = "token tok1"
    /\ batch.analyzerToken = "tok1"

(***************************************************************************)
(* Properties of the session helpers                                       *)
(***************************************************************************)
\* The step in which getUserInfo, awaited by initAuthUI, returns.
UserInfoReturned == uiPc = "awaitUser" /\ uiPc' = "done"

\* C22: getUserInfo never throws. The request is made only while a token is
\* persisted; initAuthUI without a token ends logged out with the storage
\* untouched; every answer ends the call; after a 401 no token is persisted
\* and nothing is shown as signed in; after another failing status or a
\* rejected fetch the token is the one persisted before and nothing is
\* shown as signed in.
C22_GetUserInfoReturnsNullOnFailure ==
    [][/\ uiPc' = "awaitUser" => isAuthenticated(sessionStorage')
       /\ (uiPc = "pending" /\ lastEvent' = "init_auth_ui"
           /\ ~isAuthenticated(sessionStorage)) =>
               /\ uiPc' = "done"
               /\ authView' = "loggedOut"
               /\ sessionStorage' = sessionStorage
       /\ (UserInfoReturned /\ lastEvent' = "userinfo_401") =>
               /\ getToken(sessionStorage') = NULL
               /\ authView' = "loggedOut"
       /\ (UserInfoReturned /\ lastEvent' \in {"userinfo_500", "userinfo_0"}) =>
               /\ Truthy(getToken(sessionStorage'))
               /\ sessionStorage' = sessionStorage
               /\ authView' = "loggedOut"
       /\ UserInfoReturned =>
               lastEvent' \in {"userinfo_200", "userinfo_401", "userinfo_500",
                               "userinfo_0"}]_vars

\* A rejected fetch left the persisted token in place.
C22_Witness ==
    /\ lastEvent = "userinfo_0"
    /\ uiPc = "done"
    /\ authView = "loggedOut"
    /\ isAuthenticated(sessionStorage)

\* C23: right after logout() neither a token nor a CSRF state is persisted
\* and isAuthenticated() is false; and in every state isAuthenticated() is
\* true exactly when a token is persisted.
C23_LogoutClearsSession ==
    /\ lastEvent = "logout" =>
            /\ sessionStorage[storageKey] = NULL
            /\ sessionStorage[stateKey] = NULL
            /\ ~isAuthenticated(sessionStorage)
    /\ isAuthenticated(sessionStorage) <=> sessionStorage[storageKey] # NULL

\* The page as reloaded by logout(), before initAuthUI ran.
C23_Witness ==
    /\ lastEvent = "logout"
    /\ uiPc = "pending"
    /\ authView = "loading"
    /\ ~isAuthenticated(sessionStorage)

\* C24: with no client id configured login() tells the user that OAuth is
\* not configured and changes nothing else: no CSRF state is persisted, the
\* page is not left, and the handler ends normally with the page as it was.
C24_UnconfiguredLoginChangesNothing ==
    [][~Truthy(CONFIG.GITHUB_OAUTH_CLIENT_ID) =>
        /\ lastEvent' # "login"
        /\ location'.page = "app"
        /\ sessionStorage'[stateKey] = NULL
        /\ (authView = "loggedOut" /\ lastEvent' = "login_unconfigured") =>
                /\ alertText' = "GitHub OAuth is not configured"
                /\ UNCHANGED <<sessionStorage, location, cbPc, uiPc,
                               authView, cb>>]_vars

\* login() was called with no client id configured.
C24_Witness ==
    /\ CONFIG.GITHUB_OAUTH_CLIENT_ID = ""
    /\ lastEvent = "login_unconfigured"
    /\ alertText = "GitHub OAuth is not configured"
    /\ location.page = "app"

(***************************************************************************)
(* Properties of analyzeRepository                                         *)
(***************************************************************************)
\* C25: an analysis fails only in the step that settles its metadata fetch
\* or its tree fetch, with the error it rethrows; the probe of the owner's
\* .github repository always leads on to the tree fetch with the answer
\* taken as given (a failure as false); an org file probe always leads on
\* to the next probe or to the result, and a failed one leaves the file
\* reported as missing.
C25_OnlyRepositoryFetchesAreFatal ==
    [][/\ (anPc # "failed" /\ anPc' = "failed") =>
            /\ anPc \in {"metadata", "tree"}
            /\ startsWith(an'.error, "Analysis failed: ")
       /\ anPc = "hasOrg" =>
            /\ anPc' = "tree"
            /\ an'.hasOrgGithub = orgGithubCache'[pending.key]
       /\ anPc = "govProbe" =>
            /\ anPc' \in {"govProbe", "done"}
            /\ ~orgGithubCache'[pending.key] =>
                 \E i \in 1..Len(result'.findings) :
                    result'.findings[i].title =
                        "Missing " \o governanceFiles[an.govIdx].filename]_vars

\* The owner's .github repository exists, the probe of its LICENSE failed,
\* and the analysis returned its result.
C25_Witness ==
    /\ anPc = "done"
    /\ an.hasOrgGithub
    /\ ProbedDuringAnalysis("LICENSE")
    /\ ~orgGithubCache[FileCacheKey(an.owner, "LICENSE")]
    /\ HasMissing("LICENSE")

(***************************************************************************)
(* Properties of the batch loop                                            *)
(***************************************************************************)
\* The requests of the run that are in flight: the account probe or a
\* listing page, the metadata or tree fetch of an analysis, an org probe.
InFlight ==
    (IF batchPc \in {"account", "listing"} THEN 1 ELSE 0)
    + (IF anPc \in {"metadata", "tree"} THEN 1 ELSE 0)
    + (IF pending # NoPending THEN 1 ELSE 0)

\* The place of a result's repository in the list the loop runs over.
RepoIndex(res) ==
    CHOOSE j \in 1..Len(batch.repos) :
        batch.repos[j].full_name = res.repository

\* The analysis in progress is the one of repository i of the list.
AnalysingRepo(i) ==
    /\ i \in 1..Len(batch.repos)
    /\ an.owner = batch.repos[i].owner
    /\ an.repo = batch.repos[i].name

\* At most one request of a run is in flight; while the loop runs the
\* analysis in progress is the one of repository i, and none is in progress
\* when the run is over; the results, while they are collected and when
\* they are displayed, are in the order of the repository list.
OneAnalysisAtATime ==
    /\ InFlight <= 1
    /\ batchPc = "analyzing" => AnalysingRepo(batch.i)
    /\ batchPc = "finished" => InFlight = 0
    /\ batch.i > 0 =>
        \A k, l \in 1..Len(batch.batchResults) :
            k < l => RepoIndex(batch.batchResults[k])
                        < RepoIndex(batch.batchResults[l])
    /\ BatchEnded /\ ui.results => ui.displayed = batch.batchResults

\* The loop moves to repository i + 1 only in a step in which the analysis
\* of repository i has returned or thrown, and in that step the next
\* analysis issues its metadata fetch.
NextStartsAfterPreviousSettled ==
    (batchPc = "analyzing" /\ batch'.i # batch.i) =>
        /\ anPc \in {"done", "failed"}
        /\ batch'.i = batch.i + 1
        /\ batchPc' = "analyzing" =>
                anPc' = "metadata" /\ AnalysingRepo(batch.i)'

\* C26: the repositories of a batch are analysed strictly one after
\* another, each analysis starting only once the one before it returned or
\* threw, with at most one request of the run in flight at any time, and
\* the result list keeps the order of the repository list.
C26_OneAnalysisAtATime ==
    []OneAnalysisAtATime /\ [][NextStartsAfterPreviousSettled]_vars

\* Both of two repositories were analysed and their results are displayed.
C26_Witness ==
    /\ BatchEnded
    /\ Len(batch.repos) = 2
    /\ Len(batch.batchResults) = 2
    /\ ui.displayed = batch.batchResults
    /\ batch.batchResults[1].repository = batch.repos[1].full_name

\* The findings of the result before the step are the first findings of
\* the result after it, unless the step starts a new analysis.
FindingsOnlyAppended ==
    \/ anPc' = "metadata"
    \/ /\ Len(result'.findings) >= Len(result.findings)
       /\ SubSeq(result'.findings, 1, Len(result.findings)) = result.findings

\* No two findings of the result have the same title.
TitlesDistinct ==
    \A i, j \in 1..Len(result.findings) :
        result.findings[i].title = result.findings[j].title => i = j

\* C27: within one analysis findings are only ever appended to the result,
\* and at no point do two findings of the result have the same title,
\* whatever the tree, the metadata and the org probes answer.
C27_FindingsAppendedWithDistinctTitles ==
    []TitlesDistinct /\ [][FindingsOnlyAppended]_vars

\* A result with the findings of all the checks: an empty tree and no
\* description, for an owner without a .github repository.
C27_Witness ==
    /\ anPc = "done"
    /\ an.files = {}
    /\ an.repoData.description = NULL
    /\ Len(result.findings) = 12
    /\ TitlesDistinct

(***************************************************************************)
(* Properties of the errors of a failed analysis                           *)
(***************************************************************************)
\* What the caller of a failed analysis has to go by to take the failure
\* for a transport failure: the type of the error, and the text the catch
\* block of handleAnalyze looks for.
TransportReported == an.errorName # "Error" \/ includes(an.error, "Network")

\* C28: the error of a failed analysis tells its caller whether the fetch
\* did not complete or was answered with a non-2xx status, and for a
\* non-2xx answer it carries the message of the body, or the generic text
\* with the status when the body has none.
C28_CallerTellsTransportFromApiError ==
    anPc = "failed" =>
        /\ an.failureKind = "network" <=> TransportReported
        /\ an.failureKind = "http" =>
                \/ an.error = "Analysis failed: Not Found"
                \/ an.error = "Analysis failed: GitHub API error: 500"

(***************************************************************************)
(* Properties of the critical findings                                     *)
(***************************************************************************)
\* The result has a finding of this title and severity.
HasFinding(title, severity) ==
    \E i \in 1..Len(result.findings) :
        /\ result.findings[i].title = title
        /\ result.findings[i].severity = severity

HasTitle(title) ==
    \E i \in 1..Len(result.findings) : result.findings[i].title = title

\* The names a README goes by.
ReadmeNames == {"README.md", "readme.md", "README.rst", "readme.rst",
                "README", "readme"}

\* The analysis took the file from the owner's .github repository.
Inherited(X) ==
    /\ an.hasOrgGithub
    /\ CacheHas(orgGithubCache, FileCacheKey(an.owner, X))
    /\ orgGithubCache[FileCacheKey(an.owner, X)]

\* C29: a finished analysis of a repository without a LICENSE, in the tree
\* or inherited, has a critical "Missing LICENSE" finding; one of a
\* repository without a README has a critical "Missing README" finding;
\* and a result with either finding has maturity low, whatever else the
\* tree holds.
C29_NoLicenseOrReadmeIsLowMaturity ==
    anPc = "done" =>
        /\ (~PresentInRepo("LICENSE") /\ ~Inherited("LICENSE")) =>
                HasFinding("Missing LICENSE", "critical")
        /\ an.files \cap ReadmeNames = {} =>
                HasFinding("Missing README", "critical")
        /\ (HasTitle("Missing LICENSE") \/ HasTitle("Missing README")) =>
                result.maturity_level = "low"

\* No LICENSE, no README, one CI workflow file, and an owner without a
\* .github repository.
C29_Witness ==
    /\ anPc = "done"
    /\ an.files = {".github/workflows/ci.yml"}
    /\ ~an.hasOrgGithub
    /\ HasFinding("Missing LICENSE", "critical")
    /\ HasFinding("Missing README", "critical")
    /\ ~HasTitle("No CI/CD workflows detected")
    /\ result.maturity_level = "low"

(***************************************************************************)
(* Properties of the org probes of a run                                   *)
(***************************************************************************)
RECURSIVE SumOver(_, _)
SumOver(f, S) ==
    IF S = {} THEN 0
    ELSE LET x == CHOOSE y \in S : TRUE
         IN  f[x] + SumOver(f, S \ {x})

\* The org probes the analyzer of the run has sent to the network.
TotalProbes == SumOver(orgProbes, DOMAIN orgProbes)

\* The repositories of the run all belong to one owner.
SameOwner ==
    \A k, l \in 1..Len(batch.repos) : batch.repos[k].owner = batch.repos[l].owner

\* C30: in a run over the repositories of one owner the analyzer sends at
\* most 8 org probes, one for the .github repository and one for each
\* governance file, however many repositories it analyses, and none of
\* them twice.
C30_AtMostEightOrgProbes ==
    (batch.i > 0 /\ SameOwner) =>
        /\ TotalProbes <= 8
        /\ TotalProbes <= 1 + Len(governanceFiles)
        /\ \A url \in DOMAIN orgProbes : orgProbes[url] = 1

\* Two repositories without governance files were analysed with 8 probes.
C30_Witness ==
    /\ BatchEnded
    /\ Len(batch.repos) = 2
    /\ Len(batch.batchResults) = 2
    /\ batch.batchResults[1].limitations # <<>>
    /\ Len(batch.batchResults[2].findings) >= 6
    /\ TotalProbes = 8

(***************************************************************************)
(* Properties of the analysis cache                                        *)
(***************************************************************************)
\* The key of the run's target and fork filter.
RunKey == generateKey(batch.target, batch.skipForks)

\* The last submit looked its target up in the cache and an entry was there.
LookedUpEntry ==
    /\ batch.runs > 0
    /\ ~batch.forceRefresh
    /\ RunKey \in DOMAIN batch.cacheBefore.entries

\* The age of that entry at the lookup.
AgeAtLookup ==
    batch.cacheBefore.now - batch.cacheBefore.entries[RunKey].timestamp

\* The run is between its lookup and its end.
RunInProgress == batchPc \in {"account", "listing", "analyzing", "single"}

\* C31: the lookup of handleAnalyze never yields an entry older than the
\* TTL of 60 minutes. An entry whose age exceeds the TTL is not served: the
\* run goes on as a fresh analysis and the entry is gone from the cache
\* (until the run writes a new one). An entry within the TTL is served: the
\* run ends at once with the stored results as allResults and the entry as
\* it was.
C31_GetNeverReturnsExpiredEntry ==
    /\ ttl = 3600000
    /\ ServedFromCache => LookedUpEntry /\ AgeAtLookup <= ttl
    /\ (LookedUpEntry /\ AgeAtLookup > ttl) =>
        /\ ~ui.cacheStatus
        /\ RunInProgress => RunKey \notin DOMAIN analysisCache.entries
        /\ RunKey \in DOMAIN analysisCache.entries =>
                analysisCache.entries[RunKey].timestamp = analysisCache.now
    /\ (LookedUpEntry /\ AgeAtLookup <= ttl) =>
        /\ ServedFromCache
        /\ allResults = batch.cacheBefore.entries[RunKey].results
        /\ analysisCache.entries = batch.cacheBefore.entries

\* An entry one millisecond past the TTL was looked up, and the run that
\* found it is under way without it.
C31_Witness ==
    /\ LookedUpEntry
    /\ AgeAtLookup = ttl + 1
    /\ RunInProgress
    /\ RunKey \notin DOMAIN analysisCache.entries

\* An entry of exactly the TTL's age was served.
C31_WitnessAtTtl ==
    /\ LookedUpEntry
    /\ AgeAtLookup = ttl
    /\ ServedFromCache
    /\ allResults # <<>>

\* The key of the run's target with the other setting of the fork filter.
OtherFilterKey == generateKey(batch.target, ~batch.skipForks)

\* The keys the last submit found in the cache, but for the run's own.
OtherKeys == DOMAIN batch.cacheBefore.entries \ {RunKey}

\* C32: the cache keeps one entry per target and fork-filter setting. The
\* keys of a target with the filter on and off differ, and no spelling of a
\* target in other letter case or with surrounding whitespace changes its
\* key. Whatever a run for (target, skipForks) does to the cache (a lookup
\* that hits, a lookup that removes its expired entry, the write at its
\* end), every entry under another key, that of (target, not skipForks)
\* included, stays as the run found it; and what a run is served is the
\* entry under its own key, never the other one.
C32_EntriesPerTargetAndFilter ==
    /\ \A target \in SpelledTargets, skipForks \in BOOLEAN :
        /\ generateKey(target, skipForks) # generateKey(target, ~skipForks)
        /\ generateKey(target, skipForks)
                = generateKey(toLowerCase(trim(target)), skipForks)
    /\ batch.runs > 0 =>
        /\ RunKey # OtherFilterKey
        /\ ~includes(batch.target, "/") =>
                RunKey = generateKey("owner1", batch.skipForks)
        /\ DOMAIN analysisCache.entries \ {RunKey} = OtherKeys
        /\ \A k \in OtherKeys :
                analysisCache.entries[k] = batch.cacheBefore.entries[k]
        /\ ServedFromCache =>
            /\ RunKey \in DOMAIN batch.cacheBefore.entries
            /\ allResults = batch.cacheBefore.entries[RunKey].results
        /\ (/\ ~batch.forceRefresh
            /\ RunKey \in DOMAIN batch.cacheBefore.entries
            /\ batch.cacheBefore.now = 0) => ServedFromCache

\* A run for the account in capitals with the filter on was served the
\* entry written for (owner1, true) while the cache also holds the entry of
\* (owner1, false).
C32_Witness ==
    /\ batch.runs > 0
    /\ batch.target = "OWNER1"
    /\ batch.skipForks
    /\ ServedFromCache
    /\ allResults = <<CachedNonFork>>
    /\ OtherFilterKey \in DOMAIN analysisCache.entries

\* A run with the filter off wrote its entry beside that of the filter on.
C32_WitnessSet ==
    /\ batch.target = "Owner1"
    /\ ~batch.skipForks
    /\ batchPc = "finished"
    /\ Len(batch.batchResults) = 1
    /\ RunKey \notin DOMAIN batch.cacheBefore.entries
    /\ RunKey \in DOMAIN analysisCache.entries
    /\ OtherFilterKey \in DOMAIN analysisCache.entries

\* A lookup with the filter on removed its expired entry and left the
\* equally old entry of the filter off.
C32_WitnessDelete ==
    /\ batch.runs > 0
    /\ batch.skipForks
    /\ RunKey \in DOMAIN batch.cacheBefore.entries
    /\ RunKey \notin DOMAIN analysisCache.entries
    /\ OtherFilterKey \in DOMAIN analysisCache.entries

(***************************************************************************)
(* Properties of repeated and forced runs                                  *)
(***************************************************************************)
\* The last submit had "Force refresh" checked.
ForcedRun == batch.runs > 0 /\ batch.forceRefresh

\* The run analyzes one repository, not an account.
SingleMode == includes(batch.target, "/")

\* What the run's analyses have yielded.
FreshResults == IF SingleMode THEN <<result>> ELSE batch.batchResults

\* The run is over and at least one analysis of it succeeded.
RunSucceeded ==
    /\ batchPc = "finished"
    /\ batch.analyzerToken # NULL
    /\ IF SingleMode THEN anPc = "done" ELSE Len(batch.batchResults) > 0

\* C33: a run with "Force refresh" checked never shows cached results. It
\* does not ask the cache (the entry of its target stays as it was while
\* the run goes on, even a stale one, and no hit is counted), it makes an
\* analyzer and runs the analysis, what it displays are the results of
\* that analysis, and when the run succeeds the entry of its target and
\* fork filter is the one this run wrote: the fresh results, the run's
\* stats, the time of the write.
C33_ForceRefreshNeverServesCache ==
    ForcedRun =>
        /\ ~ui.cacheStatus
        /\ batch.analyzerToken # NULL
        /\ analysisCache.stats.hits = batch.cacheBefore.stats.hits
        /\ RunInProgress => analysisCache = batch.cacheBefore /\ ~ui.results
        /\ ui.results =>
            /\ RunSucceeded
            /\ ui.displayed = FreshResults
            /\ allResults = FreshResults
        /\ RunSucceeded =>
            /\ RunKey \in DOMAIN analysisCache.entries
            /\ analysisCache.entries[RunKey].results = FreshResults
            /\ analysisCache.entries[RunKey].analysisStats = <<analysisStats>>
            /\ analysisCache.entries[RunKey].timestamp = analysisCache.now
            /\ analysisCache.entries[RunKey].target = batch.target
            /\ analysisCache.entries[RunKey].skipForks = batch.skipForks

\* A forced run of an account whose entry was still within the TTL ended
\* with success and put its own results in the place of the cached ones.
C33_Witness ==
    /\ ForcedRun
    /\ RunKey \in DOMAIN batch.cacheBefore.entries
    /\ AgeAtLookup <= ttl
    /\ RunSucceeded
    /\ analysisCache.entries[RunKey].results
            # batch.cacheBefore.entries[RunKey].results
    /\ analysisCache.entries[RunKey].results = allResults

(***************************************************************************)
(* Order of the checks                                                     *)
(***************************************************************************)
\* The checks of analyzeRepository in the order of the code.
CheckNames ==
    <<"governance", "readme", "about", "ci", "community", "dependencies">>

\* Every order the six checks can be called in.
CheckOrders ==
    {[i \in DOMAIN CheckNames |-> CheckNames[p[i]]] :
        p \in Permutations(DOMAIN CheckNames)}

\* One check of a finished analysis run again on res, with the answers the
\* org probes gave during the analysis.
RunCheck(name, res) ==
    CASE name = "governance" ->
            GovernanceRun(1, res, an.files, an.owner, an.hasOrgGithub,
                          orgGithubCache).res
      [] name = "readme" -> checkReadme(an.files, res)
      [] name = "about" -> checkAboutMetadata(an.repoData, res)
      [] name = "ci" -> checkCIWorkflows(an.files, res)
      [] name = "community" -> checkCommunityFiles(an.files, res)
      [] name = "dependencies" -> checkDependencies(an.files, res)

RECURSIVE RunChecks(_, _, _)
\* The first n checks of order run on res, one after the other.
RunChecks(order, n, res) ==
    IF n = 0 THEN res
    ELSE RunCheck(order[n], RunChecks(order, n - 1, res))

\* The result of a finished analysis as it was when the checks began.
BeforeChecks ==
    [result EXCEPT
        !.findings = <<>>,
        !.maturity_level = "low",
        !.limitations =
            IF an.repoData.parent # NULL
            THEN <<"Fork ahead/behind status requires additional API calls">>
            ELSE <<>>]

\* The result with the checks run in order and the maturity calculated.
ResultIn(order) ==
    LET r == RunChecks(order, Len(order), BeforeChecks)
    IN  [r EXCEPT !.maturity_level = calculateMaturity(r)]

\* C34: the outcome of a finished analysis does not depend on the order of
\* its six checks. Run in the order of the code they give the result the
\* analysis returned; run in any other order they give the same findings
\* (as a set, and as many of them), the same limitations and the same
\* maturity.
C34_ChecksCommute ==
    anPc = "done" =>
        /\ ResultIn(CheckNames) = result
        /\ \A order \in CheckOrders :
            LET r == ResultIn(order)
            IN  /\ Range(r.findings) = Range(result.findings)
                /\ Len(r.findings) = Len(result.findings)
                /\ Range(r.limitations) = Range(result.limitations)
                /\ Len(r.limitations) = Len(result.limitations)
                /\ r.maturity_level = result.maturity_level
                /\ [r EXCEPT !.findings = <<>>, !.limitations = <<>>]
                    = [result EXCEPT !.findings = <<>>, !.limitations = <<>>]

\* An analysis ended with findings of at least three checks and with
\* limitations of two, so that another order of the checks lists them in
\* another sequence.
C34_Witness ==
    /\ anPc = "done"
    /\ HasTitle("Missing README")
    /\ HasTitle("No CI/CD workflows detected")
    /\ HasTitle("Missing LICENSE")
    /\ Len(result.limitations) >= 2
    /\ \E order \in CheckOrders : ResultIn(order).findings # result.findings

\* A submit starts a fresh analysis: handleAnalyze makes the run's analyzer.
FreshRunStarts ==
    /\ batch'.runs = batch.runs + 1
    /\ batch'.analyzerToken # NULL

\* The analyzer of a starting run has memoized nothing.
RunStartsWithEmptyCache ==
    FreshRunStarts => orgGithubCache' = EmptyCache /\ orgProbes' = NoProbes

\* The first analysis of a run has its metadata and goes on.
FirstAnalysisGoesOn ==
    /\ batchPc \in {"single", "analyzing"}
    /\ SingleMode \/ batch.i = 1
    /\ anPc = "metadata"
    /\ anPc' \notin {"metadata", "failed"}

\* It has to ask the network whether the owner has a .github repository:
\* no answer of an earlier run is at hand.
FirstAnalysisProbesOwner ==
    FirstAnalysisGoesOn =>
        /\ anPc' = "hasOrg"
        /\ RepoCacheKey(an.owner) \notin DOMAIN orgGithubCache
        /\ pending'.url = RepoProbeUrl(an.owner)
        /\ orgProbes'[RepoProbeUrl(an.owner)] = 1

\* C35: the cache of org probes belongs to the analyzer of one run. Every
\* fresh analysis that handleAnalyze starts begins with an analyzer whose
\* cache is empty, so the first analysis of every run, also of a run that
\* follows one which memoized the owner's answers, fetches the owner's
\* .github probe again instead of using a memoized answer.
C35_OrgCacheIsPerRun ==
    /\ [][RunStartsWithEmptyCache]_vars
    /\ [][FirstAnalysisProbesOwner]_vars

\* In the second run on a page the first analysis waits for the owner's
\* probe, which the first run, a successful one, had memoized.
C35_Witness ==
    /\ batch.runs = 2
    /\ batch.analyzerToken # NULL
    /\ \E k \in DOMAIN batch.cacheBefore.entries :
            batch.cacheBefore.entries[k].results[1].repository = "owner1/repo1"
    /\ an.owner = "owner1"
    /\ anPc = "hasOrg"
    /\ DOMAIN orgGithubCache = {}
    /\ orgProbes[RepoProbeUrl("owner1")] = 1

(***************************************************************************)
(* Stats, cache writes and the analyze button over the runs of a page      *)
(***************************************************************************)
\* No run is under way: the page waits for a submit.
NoRunInProgress == batchPc \in {"idle", "finished"}

\* C36: whenever no analysis is in progress the stats agree with the
\* results the page holds: succeeded is the number of entries of allResults
\* and succeeded + failed = total.
C36_StatsAgreeWithResults ==
    NoRunInProgress =>
        /\ analysisStats.succeeded = Len(allResults)
        /\ analysisStats.succeeded + analysisStats.failed = analysisStats.total

\* The stats are those of the last run that got to count its analyses or
\* was served from the cache, which need not be the last run.
C36_StatsAreInternallyConsistent ==
    analysisStats.succeeded + analysisStats.failed = analysisStats.total

\* A fresh analysis is over and none of its analyses succeeded: the
\* listing failed, no repository was left to analyze, or every analysis
\* failed.
RunWithoutResult ==
    /\ batchPc = "finished"
    /\ batch.analyzerToken # NULL
    /\ IF SingleMode THEN anPc = "failed" ELSE Len(batch.batchResults) = 0

\* The entry of the run's key is in cache as it is in the cache before.
SameEntry(cache, before) ==
    IF RunKey \in DOMAIN before.entries
    THEN /\ RunKey \in DOMAIN cache.entries
         /\ cache.entries[RunKey] = before.entries[RunKey]
    ELSE RunKey \notin DOMAIN cache.entries

\* C37 as stated: after a run without a successful result the cache entry
\* of its target and fork filter is exactly as it was before the run.
C37_EntryAsBeforeTheRun ==
    RunWithoutResult => SameEntry(analysisCache, batch.cacheBefore)

\* C37 as amended: a run without a successful result never writes the
\* cache. No set is counted, the entries of other keys are as they were,
\* and the entry of the run's target and fork filter is as it was before
\* the run, but for an entry older than the TTL that the lookup of a run
\* without "Force refresh" found: that entry is gone.
C37_NoResultNoCacheWrite ==
    RunWithoutResult =>
        /\ analysisCache.stats = batch.cacheBefore.stats
        /\ \A k \in DOMAIN analysisCache.entries :
            /\ k \in DOMAIN batch.cacheBefore.entries
            /\ analysisCache.entries[k] = batch.cacheBefore.entries[k]
        /\ DOMAIN batch.cacheBefore.entries \ {RunKey}
                \subseteq DOMAIN analysisCache.entries
        /\ IF LookedUpEntry /\ AgeAtLookup > ttl
           THEN RunKey \notin DOMAIN analysisCache.entries
           ELSE SameEntry(analysisCache, batch.cacheBefore)

\* A forced run of an account with a cached entry ended with every
\* analysis failed, and the entry is the one the run found.
C37_Witness ==
    /\ RunWithoutResult
    /\ batch.failedCount > 0
    /\ RunKey \in DOMAIN batch.cacheBefore.entries
    /\ analysisCache.entries[RunKey] = batch.cacheBefore.entries[RunKey]

\* A run whose lookup removed a stale entry ended on a failed listing.
C37_WitnessStale ==
    /\ RunWithoutResult
    /\ batch.accountAnswer # NULL
    /\ batch.allRepos = <<>>
    /\ ui.error
    /\ LookedUpEntry
    /\ AgeAtLookup > ttl
    /\ RunKey \notin DOMAIN analysisCache.entries

(***************************************************************************)
(* The result list of a batch                                              *)
(***************************************************************************)
\* The classifications classifyRepository can give.
Classifications == {"library", "webapp", "cli", "docs", "config", "mixed"}

\* r is the result of an analysis that ran to its end.
CompletedAnalysis(r) ==
    /\ r.classification \in Classifications
    /\ r.classification # "unknown"
    /\ r.maturity_level = calculateMaturity(r)

\* Every entry of the batch's list is a completed analysis of a repository
\* the loop attempted, and the entries and the failures add up to the
\* analyses that have settled.
BatchResultsAreCompleted ==
    /\ \A i \in DOMAIN batch.batchResults :
        /\ CompletedAnalysis(batch.batchResults[i])
        /\ batch.batchResults[i].repository \in Range(batch.attempted)
    /\ batchPc = "analyzing" =>
            Len(batch.batchResults) + batch.failedCount = batch.i - 1
    /\ BatchEnded =>
            Len(batch.batchResults) + batch.failedCount = Len(batch.repos)

\* The loop takes note of a settled analysis: a failed one is counted and
\* the list stays as it is, a returned one is appended.
SettledAnalysisIsKeptOrCounted ==
    (batchPc = "analyzing" /\ batch' # batch) =>
        IF anPc = "failed"
        THEN /\ batch'.batchResults = batch.batchResults
             /\ batch'.failedCount = batch.failedCount + 1
        ELSE /\ anPc = "done"
             /\ batch'.batchResults = Append(batch.batchResults, result)
             /\ batch'.failedCount = batch.failedCount

\* C38: every entry of a batch's result list is a completed analysis: its
\* classification is one of library, webapp, cli, docs, config and mixed,
\* never the initial 'unknown', and its maturity is the one calculated from
\* its final findings. An analysis that failed part-way adds no entry: it
\* is counted as a failure and the list stays as it was.
C38_BatchResultsAreCompletedAnalyses ==
    /\ []BatchResultsAreCompleted
    /\ [][SettledAnalysisIsKeptOrCounted]_vars

\* A batch of two ended with one entry: the first analysis failed on a
\* fetch, the second ran to its end.
C38_Witness ==
    /\ BatchEnded
    /\ Len(batch.repos) = 2
    /\ batch.failedCount = 1
    /\ Len(batch.batchResults) = 1
    /\ batch.batchResults[1].repository = batch.repos[2].full_name
    /\ batch.batchResults[1].findings # <<>>
    /\ allResults = batch.batchResults

\* While a fresh analysis runs the button is disabled and the loading
\* indicator shown; whenever none runs the button is enabled and the
\* indicator hidden.
ButtonFollowsRun ==
    /\ RunInProgress => ui.analyzeDisabled /\ ui.loading
    /\ NoRunInProgress => ~ui.analyzeDisabled /\ ~ui.loading

\* What is left of a run, most significant first: its phases (the account
\* probe, the listing, the analyses), the listing pages it may still ask
\* for, the repositories it has not settled, and the fetches the analysis
\* under way may still wait for.
WorkLeft ==
    <<CASE batchPc = "account" -> 3
        [] batchPc = "listing" -> 2
        [] batchPc \in {"analyzing", "single"} -> 1
        [] OTHER -> 0,
      IF batchPc = "listing" THEN MaxFullPages + 2 - batch.currentPage ELSE 0,
      CASE batchPc = "analyzing" -> Len(batch.repos) - batch.i + 1
        [] batchPc = "single" -> 1
        [] OTHER -> 0,
      CASE anPc = "metadata" -> Len(governanceFiles) + 4
        [] anPc = "hasOrg" -> Len(governanceFiles) + 3
        [] anPc = "tree" -> Len(governanceFiles) + 2
        [] anPc = "govProbe" -> Len(governanceFiles) - an.govIdx + 2
        [] anPc \in {"done", "failed"} -> 1
        [] OTHER -> 0>>

\* Tuples of naturals in lexicographic order.
LexLess(a, b) ==
    \E i \in DOMAIN a :
        /\ a[i] < b[i]
        /\ \A j \in 1..(i - 1) : a[j] = b[j]

\* Every step of a run in progress leaves less of it: a run cannot go
\* round in circles, and nothing but the run's own steps happens meanwhile.
RunGetsNearerItsEnd ==
    RunInProgress =>
        /\ LexLess(WorkLeft', WorkLeft)
        /\ \A i \in DOMAIN WorkLeft : WorkLeft[i] >= 0

\* C39: a fresh analysis disables the analyze button as it starts, and
\* every way out of handleAnalyze (results shown, a listing error, no
\* repositories, every analysis failed, an analysis that threw) enables it
\* again and hides the loading indicator. No run leaves the button
\* disabled: every step of a run in progress takes it nearer its end, and
\* at its end the button is enabled.
C39_ButtonReenabledOnEveryExit ==
    /\ []ButtonFollowsRun
    /\ [][RunGetsNearerItsEnd]_vars

\* The second run on a page ended with every analysis failed, after a
\* first run that ended on an error too, and the button is enabled.
C39_Witness ==
    /\ batch.runs = 2
    /\ batchPc = "finished"
    /\ batch.analyzerToken # NULL
    /\ batch.failedCount > 0
    /\ Len(batch.batchResults) = 0
    /\ ui.error
    /\ ~ui.analyzeDisabled
    /\ ~ui.loading
    /\ DOMAIN analysisCache.entries = {}

====
